---- MODULE Spec2Model ----
(***************************************************************************)
(* A model of the go-soql marshaller (marshaller.go): the annotation       *)
(* driven compiler from tagged Go structs to SOQL text.                    *)
(*                                                                         *)
(* Strings are sequences of tokens.  A token is either one character (for  *)
(* the strings the code inspects character by character: values that are   *)
(* escaped, joiner parameters that are lower-cased, order fields that are  *)
(* trimmed) or an indivisible run of ordinary characters (names, keywords  *)
(* and rendered numbers).  The empty Go string is the empty sequence.      *)
(*                                                                         *)
(* A Go value together with its reflected type is a record with a fixed    *)
(* set of fields (kind, ptr, nil, elem, i, b, s, items, fields); a struct  *)
(* field is a record [name, tag, v] where tag is the sequence of the comma *)
(* separated items of its soql tag (the empty sequence when it has none).  *)
(***************************************************************************)
EXTENDS Integers, Sequences, FiniteSets, TLC

VARIABLES v, rel, s, op, out, prev

vars == <<v, rel, s, op, out, prev>>

(***************************************************************************)
(* Constants of marshaller.go (lines 18-147).                              *)
(***************************************************************************)
openBrace == <<"(">>
closeBrace == <<")">>
orCondition == <<" OR ">>
andCondition == <<" AND ">>
singleQuote == <<"'">>
safeSingleQuote == <<"\\", "'">>
doubleQuote == <<"\"">>
safeDoubleQuote == <<"\\", "\"">>
backslash == <<"\\">>
safeBackslash == <<"\\", "\\">>
newLine == <<"\n">>
safeNewLine == <<"\\", "n">>
carriageReturn == <<"\r">>
safeCarriageReturn == <<"\\", "r">>
tab == <<"\t">>
safeTab == <<"\\", "t">>
bell == <<"<BS>">>
safeBell == <<"\\", "b">>
formFeed == <<"\f">>
safeFormFeed == <<"\\", "f">>
underscore == <<"_">>
safeUnderscore == <<"\\", "_">>
percentSign == <<"%">>
safePercentSign == <<"\\", "%">>
comma == <<",">>
notOperator == <<"NOT ">>
openLike == <<" LIKE ", "'", "%">>
closeLike == <<"%", "'">>
inOperator == <<" IN ">>
notInOperator == <<" NOT IN ">>
equalsOperator == <<" = ">>
period == <<".">>
null == <<"null">>
notEqualsOperator == <<" != ">>
greaterThanOperator == <<" > ">>
greaterThanOrEqualsToOperator == <<" >= ">>
lessThanOperator == <<" < ">>
lessThanOrEqualsToOperator == <<" <= ">>
greaterNextNDaysOperator == <<" > NEXT_N_DAYS:">>
greaterOrEqualNextNDaysOperator == <<" >= NEXT_N_DAYS:">>
equalsNextNDaysOperator == <<" = NEXT_N_DAYS:">>
lessNextNDaysOperator == <<" < NEXT_N_DAYS:">>
lessOrEqualNextNDaysOperator == <<" <= NEXT_N_DAYS:">>
greaterLastNDaysOperator == <<" > LAST_N_DAYS:">>
greaterOrEqualLastNDaysOperator == <<" >= LAST_N_DAYS:">>
equalsLastNDaysOperator == <<" = LAST_N_DAYS:">>
lessLastNDaysOperator == <<" < LAST_N_DAYS:">>
lessOrEqualLastNDaysOperator == <<" <= LAST_N_DAYS:">>
selectKeyword == <<"SELECT ">>
whereKeyword == <<" WHERE ">>
fromKeyword == <<" FROM ">>
orderByKeyword == <<" ORDER BY ">>
limitKeyword == <<" LIMIT ">>
offsetKeyword == <<" OFFSET ">>
ascKeyword == <<" ASC">>
descKeyword == <<" DESC">>

SelectClause == "selectClause"
TableName == "tableName"
SelectColumn == "selectColumn"
SelectChild == "selectChild"
FieldName == "fieldName"
WhereClause == "whereClause"
Joiner == "joiner"
OrderByClause == "orderByClause"
LimitClause == "limitClause"
OffsetClause == "offsetClause"
LikeOperator == "likeOperator"
NotLikeOperator == "notLikeOperator"
InOperator == "inOperator"
NotInOperator == "notInOperator"
EqualsOperator == "equalsOperator"
NotEqualsOperator == "notEqualsOperator"
NullOperator == "nullOperator"
GreaterThanOperator == "greaterThanOperator"
GreaterThanOrEqualsToOperator == "greaterThanOrEqualsToOperator"
LessThanOperator == "lessThanOperator"
LessThanOrEqualsToOperator == "lessThanOrEqualsToOperator"
GreaterNextNDaysOperator == "greaterNextNDaysOperator"
GreaterOrEqualNextNDaysOperator == "greaterOrEqualNextNDaysOperator"
EqualsNextNDaysOperator == "equalsNextNDaysOperator"
LessNextNDaysOperator == "lessNextNDaysOperator"
LessOrEqualNextNDaysOperator == "lessOrEqualNextNDaysOperator"
GreaterLastNDaysOperator == "greaterLastNDaysOperator"
GreaterOrEqualLastNDaysOperator == "greaterOrEqualLastNDaysOperator"
EqualsLastNDaysOperator == "equalsLastNDaysOperator"
LessLastNDaysOperator == "lessLastNDaysOperator"
LessOrEqualLastNDaysOperator == "lessOrEqualLastNDaysOperator"
Subquery == "subquery"

(***************************************************************************)
(* Errors (lines 173-210).  NoErr is Go's nil error; Panic is a run-time   *)
(* panic of the reflect package.                                           *)
(***************************************************************************)
NoErr == "nil"
Panic == "panic"
ErrInvalidTag == "ErrInvalidTag"
ErrNilValue == "ErrNilValue"
ErrMultipleSelectClause == "ErrMultipleSelectClause"
ErrNoSelectClause == "ErrNoSelectClause"
ErrMultipleWhereClause == "ErrMultipleWhereClause"
ErrInvalidOrderByClause == "ErrInvalidOrderByClause"
ErrMultipleOrderByClause == "ErrMultipleOrderByClause"
ErrInvalidSelectColumnOrderByClause == "ErrInvalidSelectColumnOrderByClause"
ErrInvalidLimitClause == "ErrInvalidLimitClause"
ErrMultipleLimitClause == "ErrMultipleLimitClause"
ErrInvalidOffsetClause == "ErrInvalidOffsetClause"
ErrMultipleOffsetClause == "ErrMultipleOffsetClause"

\* A (string, error) pair as returned by every function of the package.
Ret(text, err) == [text |-> text, err |-> err]

Ok(text) == Ret(text, NoErr)

Fail(err) == Ret(<<>>, err)

(***************************************************************************)
(* Go values with their reflected type.                                    *)
(***************************************************************************)
IntKinds == {"int", "int8", "int16", "int32", "int64",
             "uint", "uint8", "uint16", "uint32", "uint64"}

FloatKinds == {"float32", "float64"}

Val(kind) == [kind |-> kind, ptr |-> FALSE, nil |-> FALSE, elem |-> "", i |-> 0,
              b |-> FALSE, s |-> <<>>, items |-> <<>>, fields |-> <<>>]

StringV(str) == [Val("string") EXCEPT !.s = str]

IntV(kind, n) == [Val(kind) EXCEPT !.i = n]

BoolV(b) == [Val("bool") EXCEPT !.b = b]

\* time.Time: a struct type (reflect.Struct) none of whose fields is tagged
TimeV(n) == [Val("time.Time") EXCEPT !.i = n]

StructV(fields) == [Val("struct") EXCEPT !.fields = fields]

SliceV(elem, items) == [Val("slice") EXCEPT !.elem = elem, !.items = items]

\* a value of type Order (lines 216-222)
OrderV(field, isDesc) == [Val("Order") EXCEPT !.s = field, !.b = isDesc]

\* a non-nil pointer to x
PtrTo(x) == [x EXCEPT !.ptr = TRUE]

\* the nil pointer of type *T, for x of type T (the type of the pointee is kept)
NilPtr(x) == [x EXCEPT !.ptr = TRUE, !.nil = TRUE]

\* reflect.Indirect of a non-nil pointer
Indirect(p) == [p EXCEPT !.ptr = FALSE]

\* reflect.Value.Kind(), as far as the code distinguishes kinds
Kind(x) == IF x.ptr THEN "ptr"
           ELSE IF x.kind \in {"struct", "time.Time", "Order"} THEN "struct"
           ELSE x.kind

\* the dynamic type of the interface value, as the type switches see it
TypeOf(x) == IF x.ptr THEN "*" \o x.kind
             ELSE IF x.kind = "slice" THEN "[]" \o x.elem
             ELSE x.kind

Item(k) == [k |-> k, eq |-> FALSE, val |-> <<>>]

Param(k, val) == [k |-> k, eq |-> TRUE, val |-> val]

Field(name, tag, val) == [name |-> name, tag |-> tag, v |-> val]

RECURSIVE ZeroSeq(_)
\* the zero value of the type of x (reflect.New(t).Elem())
ZeroOf(x) == [x EXCEPT !.nil = x.ptr, !.i = 0, !.b = FALSE, !.s = <<>>, !.items = <<>>,
                       !.fields = IF x.ptr THEN x.fields ELSE ZeroSeq(x.fields)]

ZeroSeq(fs) == IF fs = <<>> THEN <<>>
               ELSE <<[Head(fs) EXCEPT !.v = ZeroOf(Head(fs).v)]>> \o ZeroSeq(Tail(fs))

(***************************************************************************)
(* The escaping replacers (lines 224-244).  strings.NewReplacer with only  *)
(* one-byte old strings is a byte replacer: one left-to-right pass that    *)
(* looks every byte up in the table, the first pair for a byte winning.    *)
(***************************************************************************)
\* the table with the pairs of the two quotes alone
sanitizeCharactersQuotesOnly == <<
    <<singleQuote, safeSingleQuote>>,
    <<doubleQuote, safeDoubleQuote>> >>

sanitizeCharacters == <<
    <<singleQuote, safeSingleQuote>>,
    <<doubleQuote, safeDoubleQuote>>,
    <<backslash, safeBackslash>>,
    <<newLine, safeNewLine>>,
    <<carriageReturn, safeCarriageReturn>>,
    <<tab, safeTab>>,
    <<bell, safeBell>>,
    <<formFeed, safeFormFeed>> >>

sanitizeLikeCharacters == sanitizeCharacters \o <<
    <<underscore, safeUnderscore>>,
    <<percentSign, safePercentSign>> >>

RECURSIVE Lookup(_, _)
\* the replacement of character c in the table oldnew, <<c>> when it has none
Lookup(oldnew, c) ==
    IF oldnew = <<>> THEN <<c>>
    ELSE IF Head(oldnew)[1] = <<c>> THEN Head(oldnew)[2]
    ELSE Lookup(Tail(oldnew), c)

RECURSIVE ReplaceAll(_, _, _)
\* strings.ReplaceAll(str, old, new) for a one-character old
ReplaceAll(str, old, new) ==
    IF str = <<>> THEN <<>>
    ELSE (IF <<Head(str)>> = old THEN new ELSE <<Head(str)>>) \o ReplaceAll(Tail(str), old, new)

RECURSIVE ReplaceSequential(_, _)
\* one whole pass per pair, each pass working on the output of the previous
ReplaceSequential(oldnew, str) ==
    IF oldnew = <<>> THEN str
    ELSE ReplaceSequential(Tail(oldnew), ReplaceAll(str, Head(oldnew)[1], Head(oldnew)[2]))

RECURSIVE Replace(_, _)
\* (*strings.Replacer).Replace
Replace(oldnew, str) ==
    IF str = <<>> THEN <<>>
    ELSE Lookup(oldnew, Head(str)) \o Replace(oldnew, Tail(str))

sanitizeReplacer(str) == Replace(sanitizeCharacters, str)

sanitizeLikeReplacer(str) == Replace(sanitizeLikeCharacters, str)

(***************************************************************************)
(* Rendering of scalar values.                                             *)
(***************************************************************************)
\* fmt.Sprint of an integer, a float holding a whole number, or a bool
Sprint(x) == IF x.kind = "bool"
             THEN <<IF x.b THEN "true" ELSE "false">>
             ELSE <<ToString(x.i)>>

\* time.Time.Format(DateFormat): a fixed-width, non-empty text per instant
FormatDate(x) == <<"2006-01-02T15:04:0" \o ToString(x.i) \o ".000-0700">>

(***************************************************************************)
(* Tag access (lines 781-819).                                             *)
(***************************************************************************)
\* strings.Split(clauseTag, ",")[0]; the absent tag splits into one empty item
getClauseKey(clauseTag) == IF clauseTag = <<>> THEN "" ELSE clauseTag[1].k

RECURSIVE getTagValue(_, _, _)
getTagValue(clauseTag, key, defaultValue) ==
    IF clauseTag = <<>> THEN defaultValue
    ELSE LET tagItem == clauseTag[Len(clauseTag)]
             init == SubSeq(clauseTag, 1, Len(clauseTag) - 1)
         IN IF tagItem.eq /\ tagItem.k = key THEN tagItem.val
            ELSE getTagValue(init, key, defaultValue)

getFieldName(clauseTag, defaultFieldName) == getTagValue(clauseTag, FieldName, defaultFieldName)

getTableName(clauseTag, defaultTableName) == getTagValue(clauseTag, TableName, defaultTableName)

\* strings.ToLower on one character
LowerChar(c) ==
    CASE c = "A" -> "a" [] c = "D" -> "d" [] c = "N" -> "n" [] c = "O" -> "o"
      [] c = "R" -> "r" [] c = "X" -> "x" [] OTHER -> c

RECURSIVE ToLower(_)
ToLower(str) == IF str = <<>> THEN <<>> ELSE <<LowerChar(Head(str))>> \o ToLower(Tail(str))

getJoinerTotal(clauseTag) ==
    LET tag == ToLower(getTagValue(clauseTag, Joiner, <<>>))
    IN  IF tag = <<"o", "r">> THEN Ok(orCondition) ELSE Ok(andCondition)

getJoiner(clauseTag) ==
    LET tag == ToLower(getTagValue(clauseTag, Joiner, <<>>))
    IN  IF tag = <<"o", "r">> THEN Ok(orCondition)
        ELSE IF tag = <<"a", "n", "d">> \/ tag = <<>> THEN Ok(andCondition)
        ELSE Fail(ErrInvalidTag)

(***************************************************************************)
(* Condition builders (lines 246-481).                                     *)
(***************************************************************************)
RECURSIVE LikePatterns(_, _, _, _)
\* the loop of constructLikeClause over patterns[indx..]
LikePatterns(patterns, indx, fieldName, exclude) ==
    IF indx > Len(patterns) THEN <<>>
    ELSE (IF indx > 1 THEN (IF exclude THEN andCondition ELSE orCondition) ELSE <<>>)
         \o (IF exclude THEN openBrace \o notOperator ELSE <<>>)
         \o fieldName \o openLike \o sanitizeLikeReplacer(patterns[indx].s) \o closeLike
         \o (IF exclude THEN closeBrace ELSE <<>>)
         \o LikePatterns(patterns, indx + 1, fieldName, exclude)

\* the parentheses around the group written for a single pattern as well
constructLikeClauseWrapOne(x, fieldName, exclude) ==
    IF TypeOf(x) # "[]string" THEN Fail(ErrInvalidTag)
    ELSE LET patterns == x.items
         IN Ok((IF Len(patterns) > 0 THEN openBrace ELSE <<>>)
               \o LikePatterns(patterns, 1, fieldName, exclude)
               \o (IF Len(patterns) > 0 THEN closeBrace ELSE <<>>))

constructLikeClause(x, fieldName, exclude) ==
    IF TypeOf(x) # "[]string" THEN Fail(ErrInvalidTag)
    ELSE LET patterns == x.items
         IN Ok((IF Len(patterns) > 1 THEN openBrace ELSE <<>>)
               \o LikePatterns(patterns, 1, fieldName, exclude)
               \o (IF Len(patterns) > 1 THEN closeBrace ELSE <<>>))

buildLikeClause(x, fieldName) == constructLikeClause(x, fieldName, FALSE)

buildNotLikeClause(x, fieldName) == constructLikeClause(x, fieldName, TRUE)

RECURSIVE ContainsItems(_, _, _)
\* the loop of constructContainsClause over items[indx..]
ContainsItems(items, indx, useSingleQuotes) ==
    IF indx > Len(items) THEN <<>>
    ELSE (IF indx > 1 THEN comma ELSE <<>>)
         \o (IF useSingleQuotes
             THEN singleQuote \o sanitizeReplacer(items[indx]) \o singleQuote
             ELSE items[indx])
         \o ContainsItems(items, indx + 1, useSingleQuotes)

constructContainsClause(x, fieldName, operator) ==
    LET t == TypeOf(x)
        numeric == {"[]" \o k : k \in IntKinds \cup FloatKinds \cup {"bool"}}
        items == IF t = "[]string" THEN [n \in 1..Len(x.items) |-> x.items[n].s]
                 ELSE IF t \in numeric THEN [n \in 1..Len(x.items) |-> Sprint(x.items[n])]
                 ELSE [n \in 1..Len(x.items) |-> FormatDate(x.items[n])]
    IN  IF t \notin {"[]string", "[]time.Time"} \cup numeric THEN Fail(ErrInvalidTag)
        ELSE Ok((IF Len(items) > 0 THEN fieldName \o operator \o openBrace ELSE <<>>)
                \o ContainsItems(items, 1, t = "[]string")
                \o (IF Len(items) > 0 THEN closeBrace ELSE <<>>))

buildInClause(x, fieldName) == constructContainsClause(x, fieldName, inOperator)

buildNotInClause(x, fieldName) == constructContainsClause(x, fieldName, notInOperator)

constructComparisonClauseNoPtrCheck(x, fieldName, operator) ==
    LET t == TypeOf(x)
        scalars == IntKinds \cup FloatKinds \cup {"bool"}
        value == IF t = "string" THEN x.s
                 ELSE IF t \in scalars \/ t \in {"*" \o k : k \in scalars} THEN Sprint(x)
                 ELSE FormatDate(x)
    IN  IF t \notin {"string", "time.Time", "*time.Time"} \cup scalars
                    \cup {"*" \o k : k \in scalars}
        THEN Fail(ErrInvalidTag)
        ELSE IF value # <<>>
        THEN Ok(fieldName \o operator
                \o (IF t = "string" THEN singleQuote \o sanitizeReplacer(value) \o singleQuote
                    ELSE value))
        ELSE Ok(<<>>)

\* the comparison with the empty string written like any other string
constructComparisonClauseEmptyQuoted(x, fieldName, operator) ==
    LET t == TypeOf(x)
        scalars == IntKinds \cup FloatKinds \cup {"bool"}
        value == IF t = "string" THEN x.s
                 ELSE IF t \in scalars THEN Sprint(x)
                 ELSE IF t = "time.Time" THEN FormatDate(x)
                 ELSE IF t \in {"*" \o k : k \in scalars}
                 THEN (IF ~x.nil THEN Sprint(Indirect(x)) ELSE <<>>)
                 ELSE (IF ~x.nil THEN FormatDate(Indirect(x)) ELSE <<>>)
    IN  IF t \notin {"string", "time.Time", "*time.Time"} \cup scalars
                    \cup {"*" \o k : k \in scalars}
        THEN Fail(ErrInvalidTag)
        ELSE IF value # <<>> \/ t = "string"
        THEN Ok(fieldName \o operator
                \o (IF t = "string" THEN singleQuote \o sanitizeReplacer(value) \o singleQuote
                    ELSE value))
        ELSE Ok(<<>>)

\* the type switch with a case for *string next to the other pointer forms
constructComparisonClauseStringPtr(x, fieldName, operator) ==
    LET t == TypeOf(x)
        scalars == IntKinds \cup FloatKinds \cup {"bool"}
        value == IF t = "string" THEN x.s
                 ELSE IF t = "*string" THEN (IF ~x.nil THEN x.s ELSE <<>>)
                 ELSE IF t \in scalars THEN Sprint(x)
                 ELSE IF t = "time.Time" THEN FormatDate(x)
                 ELSE IF t \in {"*" \o k : k \in scalars}
                 THEN (IF ~x.nil THEN Sprint(Indirect(x)) ELSE <<>>)
                 ELSE (IF ~x.nil THEN FormatDate(Indirect(x)) ELSE <<>>)
    IN  IF t \notin {"string", "*string", "time.Time", "*time.Time"} \cup scalars
                    \cup {"*" \o k : k \in scalars}
        THEN Fail(ErrInvalidTag)
        ELSE IF value # <<>>
        THEN Ok(fieldName \o operator
                \o (IF t \in {"string", "*string"}
                    THEN singleQuote \o sanitizeReplacer(value) \o singleQuote
                    ELSE value))
        ELSE Ok(<<>>)

constructComparisonClause(x, fieldName, operator) ==
    LET t == TypeOf(x)
        scalars == IntKinds \cup FloatKinds \cup {"bool"}
        value == IF t = "string" THEN x.s
                 ELSE IF t \in scalars THEN Sprint(x)
                 ELSE IF t = "time.Time" THEN FormatDate(x)
                 ELSE IF t \in {"*" \o k : k \in scalars}
                 THEN (IF ~x.nil THEN Sprint(Indirect(x)) ELSE <<>>)
                 ELSE (IF ~x.nil THEN FormatDate(Indirect(x)) ELSE <<>>)
    IN  IF t \notin {"string", "time.Time", "*time.Time"} \cup scalars
                    \cup {"*" \o k : k \in scalars}
        THEN Fail(ErrInvalidTag)
        ELSE IF value # <<>>
        THEN Ok(fieldName \o operator
                \o (IF t = "string" THEN singleQuote \o sanitizeReplacer(value) \o singleQuote
                    ELSE value))
        ELSE Ok(<<>>)

buildNotEqualsClause(x, fieldName) == constructComparisonClause(x, fieldName, notEqualsOperator)

buildEqualsClause(x, fieldName) == constructComparisonClause(x, fieldName, equalsOperator)

buildGreaterThanClause(x, fieldName) == constructComparisonClause(x, fieldName, greaterThanOperator)

buildGreaterThanOrEqualsToClause(x, fieldName) ==
    constructComparisonClause(x, fieldName, greaterThanOrEqualsToOperator)

buildLessThanClause(x, fieldName) == constructComparisonClause(x, fieldName, lessThanOperator)

buildLessThanOrEqualsToClause(x, fieldName) ==
    constructComparisonClause(x, fieldName, lessThanOrEqualsToOperator)

constructDateLiteralsClause(x, fieldName, operator) ==
    LET t == TypeOf(x)
        value == IF t \in IntKinds THEN Sprint(x)
                 ELSE IF ~x.nil THEN Sprint(Indirect(x)) ELSE <<>>
    IN  IF t \notin IntKinds \cup {"*" \o k : k \in IntKinds} THEN Fail(ErrInvalidTag)
        ELSE IF value # <<>> THEN Ok(fieldName \o operator \o value)
        ELSE Ok(<<>>)

buildGreaterNextNDaysOperator(x, fieldName) ==
    constructDateLiteralsClause(x, fieldName, greaterNextNDaysOperator)

buildGreaterOrEqualNextNDaysOperator(x, fieldName) ==
    constructDateLiteralsClause(x, fieldName, greaterOrEqualNextNDaysOperator)

buildEqualsNextNDaysOperator(x, fieldName) ==
    constructDateLiteralsClause(x, fieldName, equalsNextNDaysOperator)

buildLessNextNDaysOperator(x, fieldName) ==
    constructDateLiteralsClause(x, fieldName, lessNextNDaysOperator)

\* line 419: this builder alone goes through constructComparisonClause
buildLessOrEqualNextNDaysOperator(x, fieldName) ==
    constructComparisonClause(x, fieldName, lessOrEqualNextNDaysOperator)

buildGreaterLastNDaysOperator(x, fieldName) ==
    constructDateLiteralsClause(x, fieldName, greaterLastNDaysOperator)

buildGreaterOrEqualLastNDaysOperator(x, fieldName) ==
    constructDateLiteralsClause(x, fieldName, greaterOrEqualLastNDaysOperator)

buildEqualsLastNDaysOperator(x, fieldName) ==
    constructDateLiteralsClause(x, fieldName, equalsLastNDaysOperator)

buildLessLastNDaysOperator(x, fieldName) ==
    constructDateLiteralsClause(x, fieldName, lessLastNDaysOperator)

buildLessOrEqualLastNDaysOperator(x, fieldName) ==
    constructDateLiteralsClause(x, fieldName, lessOrEqualLastNDaysOperator)

\* getReflectedValueAndType (lines 483-496): the error, and the value reflected on
getReflectedErr(x) ==
    IF x.ptr /\ x.nil THEN ErrNilValue
    ELSE IF x.kind = "nil" THEN Panic   \* line 494: Type() of the zero reflect.Value
    ELSE NoErr

getReflectedValue(x) == IF x.ptr THEN Indirect(x) ELSE x

\* false treated as unset, like the empty string under a comparison
buildNullClauseFalseUnset(x, fieldName) ==
    IF getReflectedErr(x) = ErrNilValue THEN Ok(<<>>)
    ELSE IF getReflectedValue(x).kind # "bool" THEN Fail(ErrInvalidTag)
    ELSE IF getReflectedValue(x).b THEN Ok(fieldName \o equalsOperator \o null)
    ELSE Ok(<<>>)

buildNullClause(x, fieldName) ==
    IF getReflectedErr(x) = ErrNilValue THEN Ok(<<>>)
    ELSE IF getReflectedValue(x).kind # "bool" THEN Fail(ErrInvalidTag)
    ELSE IF getReflectedValue(x).b THEN Ok(fieldName \o equalsOperator \o null)
    ELSE Ok(fieldName \o notEqualsOperator \o null)

\* clauseBuilderMap (lines 149-171): the keys, and the builder of a key
clauseBuilderKeys == {
    LikeOperator, NotLikeOperator, InOperator, NotInOperator, EqualsOperator, NullOperator,
    NotEqualsOperator, GreaterThanOperator, GreaterThanOrEqualsToOperator, LessThanOperator,
    LessThanOrEqualsToOperator, GreaterNextNDaysOperator, GreaterOrEqualNextNDaysOperator,
    EqualsNextNDaysOperator, LessNextNDaysOperator, LessOrEqualNextNDaysOperator,
    GreaterLastNDaysOperator, GreaterOrEqualLastNDaysOperator, EqualsLastNDaysOperator,
    LessLastNDaysOperator, LessOrEqualLastNDaysOperator}

clauseBuilderMap(key, x, fieldName) ==
    CASE key = LikeOperator -> buildLikeClause(x, fieldName)
      [] key = NotLikeOperator -> buildNotLikeClause(x, fieldName)
      [] key = InOperator -> buildInClause(x, fieldName)
      [] key = NotInOperator -> buildNotInClause(x, fieldName)
      [] key = EqualsOperator -> buildEqualsClause(x, fieldName)
      [] key = NullOperator -> buildNullClause(x, fieldName)
      [] key = NotEqualsOperator -> buildNotEqualsClause(x, fieldName)
      [] key = GreaterThanOperator -> buildGreaterThanClause(x, fieldName)
      [] key = GreaterThanOrEqualsToOperator -> buildGreaterThanOrEqualsToClause(x, fieldName)
      [] key = LessThanOperator -> buildLessThanClause(x, fieldName)
      [] key = LessThanOrEqualsToOperator -> buildLessThanOrEqualsToClause(x, fieldName)
      [] key = GreaterNextNDaysOperator -> buildGreaterNextNDaysOperator(x, fieldName)
      [] key = GreaterOrEqualNextNDaysOperator -> buildGreaterOrEqualNextNDaysOperator(x, fieldName)
      [] key = EqualsNextNDaysOperator -> buildEqualsNextNDaysOperator(x, fieldName)
      [] key = LessNextNDaysOperator -> buildLessNextNDaysOperator(x, fieldName)
      [] key = LessOrEqualNextNDaysOperator -> buildLessOrEqualNextNDaysOperator(x, fieldName)
      [] key = GreaterLastNDaysOperator -> buildGreaterLastNDaysOperator(x, fieldName)
      [] key = GreaterOrEqualLastNDaysOperator -> buildGreaterOrEqualLastNDaysOperator(x, fieldName)
      [] key = EqualsLastNDaysOperator -> buildEqualsLastNDaysOperator(x, fieldName)
      [] key = LessLastNDaysOperator -> buildLessLastNDaysOperator(x, fieldName)
      [] key = LessOrEqualLastNDaysOperator -> buildLessOrEqualLastNDaysOperator(x, fieldName)

(***************************************************************************)
(* Reflection helpers.                                                     *)
(***************************************************************************)
\* the fields reflect reports for a struct type: time.Time and Order have
\* fields of their own, none of them tagged
FieldsOf(x) ==
    CASE x.kind = "time.Time" -> <<Field("wall", <<>>, IntV("uint64", 0)),
                                   Field("ext", <<>>, IntV("int64", 0)),
                                   Field("loc", <<>>, NilPtr(StructV(<<>>)))>>
      [] x.kind = "Order" -> <<Field("Field", <<>>, StringV(x.s)),
                               Field("IsDesc", <<>>, BoolV(x.b))>>
      [] OTHER -> x.fields

\* the text of a declared Go field name
NameStr(name) == <<name>>

(***************************************************************************)
(* Where clause (lines 677-779).                                           *)
(***************************************************************************)
RECURSIVE marshalWhereClause(_, _, _)
RECURSIVE WhereLoop(_, _, _, _, _)

\* the state of the loop of marshalWhereClause: the builder, the flag, and the
\* error the function has returned with (NoErr while it is running)
whereLocals == [buff |-> <<>>, previousConditionExists |-> FALSE, err |-> NoErr]

\* lines 700-706: the partial clause of a subquery field from its compiled group
WrapSubquery(sub) ==
    IF sub.err # NoErr THEN Fail(sub.err) ELSE Ok(openBrace \o sub.text \o closeBrace)

\* lines 727-733: the partial clause (or the error) of a field meets the builder
WriteCondition(w, joiner, res) ==
    IF res.err # NoErr THEN [w EXCEPT !.err = res.err]
    ELSE IF res.text # <<>>
    THEN [w EXCEPT !.buff = w.buff \o (IF w.previousConditionExists THEN joiner ELSE <<>>)
                                  \o res.text,
                   !.previousConditionExists = TRUE]
    ELSE w

\* the partial clause with the joiner of a subgroup read before the nil check
PartialClauseJoinerFirst(f, tableName) ==
    LET field == f.v
        clauseTag == f.tag
        clauseKey == getClauseKey(clauseTag)
        fieldName == getFieldName(clauseTag, NameStr(f.name))
        columnName == IF tableName # <<>> THEN tableName \o period \o fieldName ELSE fieldName
    IN  IF clauseKey = Subquery
        THEN IF Kind(field) # "struct" /\ Kind(field) # "ptr" THEN Fail(ErrInvalidTag)
             ELSE IF getJoiner(clauseTag).err # NoErr THEN Fail(getJoiner(clauseTag).err)
             ELSE IF Kind(field) = "ptr" /\ field.nil THEN Ok(<<>>)
             ELSE WrapSubquery(marshalWhereClause(field, tableName, getJoiner(clauseTag).text))
        ELSE IF fieldName = <<>> THEN Fail(ErrInvalidTag)
             ELSE IF clauseKey \notin clauseBuilderKeys THEN Fail(ErrInvalidTag)
             ELSE clauseBuilderMap(clauseKey, field, columnName)

\* lines 685-726: the partial clause of one field
PartialClause(f, tableName) ==
    LET field == f.v
        clauseTag == f.tag
        clauseKey == getClauseKey(clauseTag)
        fieldName == getFieldName(clauseTag, NameStr(f.name))
        columnName == IF tableName # <<>> THEN tableName \o period \o fieldName ELSE fieldName
    IN  IF clauseKey = Subquery
        THEN IF Kind(field) # "struct" /\ Kind(field) # "ptr" THEN Fail(ErrInvalidTag)
             ELSE IF Kind(field) = "ptr" /\ field.nil THEN Ok(<<>>)
             ELSE IF getJoiner(clauseTag).err # NoErr THEN Fail(getJoiner(clauseTag).err)
             ELSE WrapSubquery(marshalWhereClause(field, tableName, getJoiner(clauseTag).text))
        ELSE IF fieldName = <<>> THEN Fail(ErrInvalidTag)
             ELSE IF clauseKey \notin clauseBuilderKeys THEN Fail(ErrInvalidTag)
             ELSE clauseBuilderMap(clauseKey, field, columnName)

RECURSIVE WhereLoopPartial(_, _, _, _, _)
\* the loop handing back what the builder holds together with the error
WhereLoopPartial(fields, i, tableName, joiner, w) ==
    IF w.err # NoErr THEN Ret(w.buff, w.err)
    ELSE IF i > Len(fields) THEN Ok(w.buff)
    ELSE WhereLoopPartial(fields, i + 1, tableName, joiner,
                          WriteCondition(w, joiner, PartialClause(fields[i], tableName)))

RECURSIVE WhereLoopLeaking(_, _, _, _, _)
\* the loop with line 697 assigning to the joiner of the node itself: from
\* a subgroup on, the joiner of the subgroup joins the fields of its parent
WhereLoopLeaking(fields, i, tableName, joiner, w) ==
    IF w.err # NoErr THEN Fail(w.err)
    ELSE IF i > Len(fields) THEN Ok(w.buff)
    ELSE
    LET f == fields[i]
        own == getJoiner(f.tag)
        now == IF getClauseKey(f.tag) = Subquery /\ ~(f.v.ptr /\ f.v.nil) /\ own.err = NoErr
               THEN own.text ELSE joiner
    IN  WhereLoopLeaking(fields, i + 1, tableName, now,
                         WriteCondition(w, now, PartialClause(f, tableName)))

\* the loop of marshalWhereClause (lines 684-735) from field i on
WhereLoop(fields, i, tableName, joiner, w) ==
    IF w.err # NoErr THEN Fail(w.err)
    ELSE IF i > Len(fields) THEN Ok(w.buff)
    ELSE WhereLoop(fields, i + 1, tableName, joiner,
                   WriteCondition(w, joiner, PartialClause(fields[i], tableName)))

marshalWhereClause(x, tableName, joiner) ==
    IF getReflectedErr(x) # NoErr THEN Fail(getReflectedErr(x))
    ELSE IF Kind(getReflectedValue(x)) # "struct" THEN Fail(Panic)
    ELSE WhereLoop(FieldsOf(getReflectedValue(x)), 1, tableName, joiner, whereLocals)

MarshalWhereClause(x) == marshalWhereClause(x, <<>>, andCondition)

(***************************************************************************)
(* Order by, limit and offset (lines 498-675).                             *)
(***************************************************************************)
RECURSIVE mapSelectColumns(_, _, _, _, _)
\* the mappings after the loop of mapSelectColumns from field i on; a map is
\* the sequence of its assignments <<key, value>>, a later one overriding
mapSelectColumns(mappings, parent, gusParent, fields, i) ==
    IF i > Len(fields) THEN mappings
    ELSE
    LET tag == fields[i].tag
        fieldName == IF parent # <<>> THEN parent \o period \o NameStr(fields[i].name)
                     ELSE NameStr(fields[i].name)
        gusName == getFieldName(tag, NameStr(fields[i].name))
        gusFieldName == IF parent # <<>> THEN gusParent \o period \o gusName ELSE gusName
        fieldValue == fields[i].v
        added == Append(mappings, <<fieldName, gusFieldName>>)
    IN  mapSelectColumns(
            IF tag = <<>> \/ getClauseKey(tag) # SelectColumn THEN mappings
            ELSE IF Kind(fieldValue) = "struct"
            THEN mapSelectColumns(added, fieldName, gusFieldName, FieldsOf(fieldValue), 1)
            ELSE added,
            parent, gusParent, fields, i + 1)

\* columnMappings[key]: has the map the key, and the value last assigned to it
HasKey(mappings, key) == \E n \in 1..Len(mappings) : mappings[n][1] = key

MapGet(mappings, key) ==
    LET last == CHOOSE n \in 1..Len(mappings) :
                    /\ mappings[n][1] = key
                    /\ \A m \in (n + 1)..Len(mappings) : mappings[m][1] # key
    IN  mappings[last][2]

\* strings.TrimSpace(str) == ""
IsBlank(str) == \A n \in 1..Len(str) : str[n] \in {" ", "\t", "\n", "\r", "\f"}

RECURSIVE OrderLoopDistinct(_, _, _, _, _)
\* the loop leaving out an entry whose field an earlier entry has named
OrderLoopDistinct(orders, i, columnMappings, tableName, buff) ==
    IF i > Len(orders) THEN Ok(buff)
    ELSE
    LET order == orders[i]
        fieldName == order.s
        mapped == MapGet(columnMappings, fieldName)
        columnName == IF tableName # <<>> THEN tableName \o period \o mapped ELSE mapped
        orderString == IF order.b THEN descKeyword ELSE ascKeyword
    IN  IF IsBlank(fieldName) THEN Fail(ErrInvalidOrderByClause)
        ELSE IF ~HasKey(columnMappings, fieldName) THEN Fail(ErrInvalidOrderByClause)
        ELSE OrderLoopDistinct(orders, i + 1, columnMappings, tableName,
                 IF \E m \in 1..(i - 1) : orders[m].s = fieldName THEN buff
                 ELSE buff \o (IF buff # <<>> THEN comma ELSE <<>>) \o columnName \o orderString)

RECURSIVE OrderLoop(_, _, _, _, _)
\* the loop of marshalOrderByClause from entry i on
OrderLoop(orders, i, columnMappings, tableName, buff) ==
    IF i > Len(orders) THEN Ok(buff)
    ELSE
    LET order == orders[i]
        fieldName == order.s
        mapped == MapGet(columnMappings, fieldName)
        columnName == IF tableName # <<>> THEN tableName \o period \o mapped ELSE mapped
        orderString == IF order.b THEN descKeyword ELSE ascKeyword
    IN  IF IsBlank(fieldName) THEN Fail(ErrInvalidOrderByClause)
        ELSE IF ~HasKey(columnMappings, fieldName) THEN Fail(ErrInvalidOrderByClause)
        ELSE OrderLoop(orders, i + 1, columnMappings, tableName,
                       buff \o (IF i > 1 THEN comma ELSE <<>>) \o columnName \o orderString)

marshalOrderByClause(x, tableName, shape) ==
    LET columnMappings == mapSelectColumns(<<>>, <<>>, <<>>, FieldsOf(getReflectedValue(shape)), 1)
    IN  IF getReflectedErr(x) # NoErr THEN Fail(getReflectedErr(x))
        ELSE IF getReflectedValue(x).kind # "slice" THEN Fail(ErrInvalidOrderByClause)
        ELSE IF getReflectedValue(x).elem # "Order" THEN Fail(ErrInvalidOrderByClause)
        ELSE IF getReflectedErr(shape) # NoErr THEN Fail(getReflectedErr(shape))
        ELSE IF Kind(getReflectedValue(shape)) # "struct"
        THEN Fail(ErrInvalidSelectColumnOrderByClause)
        ELSE IF Len(columnMappings) = 0 THEN Fail(ErrInvalidSelectColumnOrderByClause)
        ELSE OrderLoop(getReflectedValue(x).items, 1, columnMappings, tableName, <<>>)

marshalIntValueNoSignCheck(x) ==
    IF TypeOf(x) # "*int" THEN Fail("invalid type")
    ELSE IF x.nil THEN Ok(<<>>)
    ELSE Ok(<<ToString(x.i)>>)

marshalIntValue(x) ==
    IF TypeOf(x) # "*int" THEN Fail("invalid type")
    ELSE IF x.nil THEN Ok(<<>>)
    ELSE IF x.i < 0 THEN Fail("invalid value")
    ELSE Ok(<<ToString(x.i)>>)

marshalLimitClause(x) ==
    IF marshalIntValue(x).err # NoErr THEN Fail(ErrInvalidLimitClause)
    ELSE Ok(marshalIntValue(x).text)

marshalOffsetClause(x) ==
    IF marshalIntValue(x).err # NoErr THEN Fail(ErrInvalidOffsetClause)
    ELSE Ok(marshalIntValue(x).text)

MarshalOrderByClause(x, shape) == marshalOrderByClause(x, <<>>, shape)

(***************************************************************************)
(* Select clause and the query compiler (lines 880-1142).                  *)
(***************************************************************************)
RECURSIVE TrimRightComma(_)
\* strings.TrimRight(str, ","): every trailing comma is removed
TrimRightComma(str) ==
    IF str # <<>> /\ <<str[Len(str)]>> = comma
    THEN TrimRightComma(SubSeq(str, 1, Len(str) - 1))
    ELSE str

\* the root roles: the cases of the switch of marshal (lines 979-1029)
RootRoles == {SelectClause, WhereClause, OrderByClause, LimitClause, OffsetClause}

\* the interface{} variables of marshal before they are assigned
NilInterface == Val("nil")

\* the local variables of marshal when its loop starts (lines 947-960), and the
\* error it has returned with (NoErr while it is running)
marshalLocals == [
    soqlTagPresent |-> FALSE, selectClausePresent |-> FALSE, whereClausePresent |-> FALSE,
    orderByClausePresent |-> FALSE, limitClausePresent |-> FALSE,
    offsetClausePresent |-> FALSE, selectSubString |-> <<>>, selectValue |-> NilInterface,
    whereValue |-> NilInterface, whereJoiner |-> <<>>, orderByValue |-> NilInterface,
    limitValue |-> NilInterface, offsetValue |-> NilInterface, tableName |-> <<>>,
    err |-> NoErr]

RECURSIVE MarshalSelectClause(_, _)
RECURSIVE SelectLoop(_, _, _, _)
RECURSIVE marshal(_, _)
RECURSIVE MarshalLoop(_, _, _, _)

\* the clauses with the OFFSET clause appended ahead of the LIMIT clause
BuildQueryOffsetFirst(l, childRelationName) ==
    LET relationName == IF childRelationName # <<>> THEN l.tableName ELSE <<>>
        where == marshalWhereClause(l.whereValue, relationName, l.whereJoiner)
        orderBy == marshalOrderByClause(l.orderByValue, relationName, l.selectValue)
        limit == marshalLimitClause(l.limitValue)
        offset == marshalOffsetClause(l.offsetValue)
    IN  IF l.whereClausePresent /\ where.err # NoErr THEN Fail(where.err)
        ELSE IF l.orderByClausePresent /\ orderBy.err # NoErr THEN Fail(orderBy.err)
        ELSE IF l.limitClausePresent /\ limit.err # NoErr THEN Fail(limit.err)
        ELSE IF l.offsetClausePresent /\ offset.err # NoErr THEN Fail(offset.err)
        ELSE Ok((IF childRelationName # <<>> THEN openBrace ELSE <<>>)
                \o l.selectSubString
                \o (IF l.whereClausePresent /\ where.text # <<>>
                    THEN whereKeyword \o where.text ELSE <<>>)
                \o (IF l.orderByClausePresent /\ orderBy.text # <<>>
                    THEN orderByKeyword \o orderBy.text ELSE <<>>)
                \o (IF l.offsetClausePresent /\ offset.text # <<>>
                    THEN offsetKeyword \o offset.text ELSE <<>>)
                \o (IF l.limitClausePresent /\ limit.text # <<>>
                    THEN limitKeyword \o limit.text ELSE <<>>)
                \o (IF childRelationName # <<>> THEN closeBrace ELSE <<>>))

\* lines 1034-1095 of marshal: the clauses are compiled and written in turn
BuildQuery(l, childRelationName) ==
    LET relationName == IF childRelationName # <<>> THEN l.tableName ELSE <<>>
        where == marshalWhereClause(l.whereValue, relationName, l.whereJoiner)
        orderBy == marshalOrderByClause(l.orderByValue, relationName, l.selectValue)
        limit == marshalLimitClause(l.limitValue)
        offset == marshalOffsetClause(l.offsetValue)
    IN  IF l.whereClausePresent /\ where.err # NoErr THEN Fail(where.err)
        ELSE IF l.orderByClausePresent /\ orderBy.err # NoErr THEN Fail(orderBy.err)
        ELSE IF l.limitClausePresent /\ limit.err # NoErr THEN Fail(limit.err)
        ELSE IF l.offsetClausePresent /\ offset.err # NoErr THEN Fail(offset.err)
        ELSE Ok((IF childRelationName # <<>> THEN openBrace ELSE <<>>)
                \o l.selectSubString
                \o (IF l.whereClausePresent /\ where.text # <<>>
                    THEN whereKeyword \o where.text ELSE <<>>)
                \o (IF l.orderByClausePresent /\ orderBy.text # <<>>
                    THEN orderByKeyword \o orderBy.text ELSE <<>>)
                \o (IF l.limitClausePresent /\ limit.text # <<>>
                    THEN limitKeyword \o limit.text ELSE <<>>)
                \o (IF l.offsetClausePresent /\ offset.text # <<>>
                    THEN offsetKeyword \o offset.text ELSE <<>>)
                \o (IF childRelationName # <<>> THEN closeBrace ELSE <<>>))

\* the assembly without the check for the select-root
MarshalAssembleUnchecked(l, childRelationName) == BuildQuery(l, childRelationName)

\* lines 1031-1095 of marshal: the assembly after the loop over the fields
MarshalAssemble(l, childRelationName) ==
    IF ~l.selectClausePresent /\ l.soqlTagPresent THEN Fail(ErrNoSelectClause)
    ELSE BuildQuery(l, childRelationName)

\* the ...Present checks of the switch without the one on the select-root
DuplicateButSelect(l, clauseKey) ==
    IF clauseKey = WhereClause /\ l.whereClausePresent THEN ErrMultipleWhereClause
    ELSE IF clauseKey = OrderByClause /\ l.orderByClausePresent THEN ErrMultipleOrderByClause
    ELSE IF clauseKey = LimitClause /\ l.limitClausePresent THEN ErrMultipleLimitClause
    ELSE IF clauseKey = OffsetClause /\ l.offsetClausePresent THEN ErrMultipleOffsetClause
    ELSE NoErr

\* the ...Present checks with a repeated where or limit reported as a
\* repeated select
DuplicateAsSelect(l, clauseKey) ==
    IF clauseKey = SelectClause /\ l.selectClausePresent THEN ErrMultipleSelectClause
    ELSE IF clauseKey = WhereClause /\ l.whereClausePresent THEN ErrMultipleSelectClause
    ELSE IF clauseKey = OrderByClause /\ l.orderByClausePresent THEN ErrMultipleOrderByClause
    ELSE IF clauseKey = LimitClause /\ l.limitClausePresent THEN ErrMultipleSelectClause
    ELSE IF clauseKey = OffsetClause /\ l.offsetClausePresent THEN ErrMultipleOffsetClause
    ELSE NoErr

\* the ...Present checks of the switch (lines 981, 999, 1009, 1016, 1023): the
\* error of a root role met for the second time, NoErr when it is the first
Duplicate(l, clauseKey) ==
    IF clauseKey = SelectClause /\ l.selectClausePresent THEN ErrMultipleSelectClause
    ELSE IF clauseKey = WhereClause /\ l.whereClausePresent THEN ErrMultipleWhereClause
    ELSE IF clauseKey = OrderByClause /\ l.orderByClausePresent THEN ErrMultipleOrderByClause
    ELSE IF clauseKey = LimitClause /\ l.limitClausePresent THEN ErrMultipleLimitClause
    ELSE IF clauseKey = OffsetClause /\ l.offsetClausePresent THEN ErrMultipleOffsetClause
    ELSE NoErr

\* the select-root recorded with the table name as the FROM target throughout
SetSelectFromTable(l, value, tableName, childRelationName, subStr) ==
    IF subStr.err # NoErr THEN [l EXCEPT !.err = subStr.err]
    ELSE [l EXCEPT !.soqlTagPresent = TRUE, !.selectClausePresent = TRUE,
                   !.selectValue = value, !.tableName = tableName,
                   !.selectSubString = selectKeyword \o subStr.text \o fromKeyword \o tableName]

\* lines 984-996: the select-root is recorded with its compiled text subStr
SetSelect(l, value, tableName, childRelationName, subStr) ==
    IF subStr.err # NoErr THEN [l EXCEPT !.err = subStr.err]
    ELSE [l EXCEPT !.soqlTagPresent = TRUE, !.selectClausePresent = TRUE,
                   !.selectValue = value, !.tableName = tableName,
                   !.selectSubString =
                       selectKeyword \o subStr.text \o fromKeyword
                       \o (IF childRelationName = <<>> THEN tableName
                           ELSE childRelationName)]

\* lines 998-1006: the where-root is recorded with its joiner
SetWhere(l, value, joiner) ==
    IF joiner.err # NoErr THEN [l EXCEPT !.err = joiner.err]
    ELSE [l EXCEPT !.soqlTagPresent = TRUE, !.whereClausePresent = TRUE,
                   !.whereValue = value, !.whereJoiner = joiner.text]

\* the body of the loop of marshal (lines 962-1029) on field f
MarshalField(l, f, childRelationName) ==
    LET clauseTag == f.tag
        clauseKey == getClauseKey(clauseTag)
        value == f.v
        tableName == getTableName(clauseTag, NameStr(f.name))
        relationName == IF childRelationName = <<>> THEN <<>> ELSE tableName
        t == [l EXCEPT !.soqlTagPresent = TRUE]
    IN  IF clauseTag = <<>> THEN l
        ELSE IF clauseKey \notin RootRoles THEN [l EXCEPT !.err = ErrInvalidTag]
        ELSE IF Duplicate(l, clauseKey) # NoErr THEN [l EXCEPT !.err = Duplicate(l, clauseKey)]
        ELSE IF clauseKey = SelectClause
        THEN SetSelect(l, value, tableName, childRelationName,
                       MarshalSelectClause(value, relationName))
        ELSE IF clauseKey = WhereClause THEN SetWhere(l, value, getJoiner(clauseTag))
        ELSE IF clauseKey = OrderByClause
        THEN [t EXCEPT !.orderByClausePresent = TRUE, !.orderByValue = value]
        ELSE IF clauseKey = LimitClause
        THEN [t EXCEPT !.limitClausePresent = TRUE, !.limitValue = value]
        ELSE [t EXCEPT !.offsetClausePresent = TRUE, !.offsetValue = value]

\* the loop of marshal (lines 961-1030) from field i on, l holding the locals
MarshalLoop(fields, i, l, childRelationName) ==
    IF l.err # NoErr THEN Fail(l.err)
    ELSE IF i > Len(fields) THEN MarshalAssemble(l, childRelationName)
    ELSE MarshalLoop(fields, i + 1, MarshalField(l, fields[i], childRelationName),
                     childRelationName)

\* marshal(reflectedValue, reflectedType, childRelationName): x carries both
\* the value and its type
marshal(x, childRelationName) ==
    IF Kind(x) = "struct"
    THEN IF Len(FieldsOf(x)) = 0 THEN Ok(<<>>)
         ELSE MarshalLoop(FieldsOf(x), 1, marshalLocals, childRelationName)
    ELSE IF childRelationName # <<>> THEN Fail(ErrInvalidTag)
    ELSE Ok(<<>>)

\* lines 917, 925, 931: the sub-query or nested columns subStr and the comma
\* are written to the builder
WriteEntry(r, subStr) ==
    IF subStr.err # NoErr THEN Fail(subStr.err) ELSE Ok(r.text \o subStr.text \o comma)

\* the body of the loop of MarshalSelectClause (lines 893-931) on field f, r
\* holding the builder
SelectField(r, f, prefix) ==
    LET clauseTag == f.tag
        clauseKey == getClauseKey(clauseTag)
        fieldName == getFieldName(clauseTag, NameStr(f.name))
    IN  IF clauseTag = <<>> THEN r
        ELSE IF clauseKey \notin {SelectColumn, SelectChild} THEN Fail(ErrInvalidTag)
        ELSE IF fieldName = <<>> THEN Fail(ErrInvalidTag)
        ELSE IF clauseKey = SelectChild
        THEN WriteEntry(r, marshal(f.v, prefix \o fieldName))
        ELSE IF Kind(f.v) = "struct"
        THEN WriteEntry(r, MarshalSelectClause(ZeroOf(f.v), prefix \o fieldName))
        ELSE Ok(r.text \o prefix \o fieldName \o comma)

\* the loop of MarshalSelectClause (lines 892-932) from field i on
SelectLoop(fields, i, prefix, r) ==
    IF r.err # NoErr THEN r
    ELSE IF i > Len(fields) THEN Ok(TrimRightComma(r.text))
    ELSE SelectLoop(fields, i + 1, prefix, SelectField(r, fields[i], prefix))

MarshalSelectClause(x, relationShipName) ==
    LET prefix == IF relationShipName # <<>> THEN relationShipName \o period ELSE <<>>
    IN  IF getReflectedErr(x) # NoErr THEN Fail(getReflectedErr(x))
        ELSE IF Kind(getReflectedValue(x)) = "struct"
        THEN SelectLoop(FieldsOf(getReflectedValue(x)), 1, prefix, Ok(<<>>))
        ELSE Fail(ErrInvalidTag)

Marshal(x) ==
    IF getReflectedErr(x) # NoErr THEN Fail(getReflectedErr(x))
    ELSE marshal(getReflectedValue(x), <<>>)

(***************************************************************************)
(* Bounds of the input space.                                              *)
(***************************************************************************)
\* longest string value fed to the escaping replacers
MaxStrLen == 2

\* most fields of a generated select shape
MaxColumns == 3

\* most fields of a generated filter criteria
MaxConditions == 2

\* most fields of a generated query description
MaxRoots == 3

\* most patterns of a generated like / not-like condition
MaxPatterns == 3

\* most entries of a generated order list
MaxOrders == 3

\* most fields of a generated filter criteria with subgroups
MaxSiblings == 3

(***************************************************************************)
(* Input construction.                                                     *)
(***************************************************************************)
RECURSIVE InjExact(_, _)
\* the field lists of exactly n fields drawn from pool, no field name twice
\* (a Go struct cannot declare a name twice)
InjExact(pool, n) ==
    IF n = 0 THEN {<<>>}
    ELSE {Append(qf[1], qf[2]) :
             qf \in {qf \in InjExact(pool, n - 1) \X pool :
                        \A m \in 1..Len(qf[1]) : qf[1][m].name # qf[2].name}}

\* the field lists of at most n fields: the prefixes of those of n fields (the
\* pools hold at least n names)
InjSeqs(pool, n) == {SubSeq(q, 1, k) : q \in InjExact(pool, n), k \in 0..n}

RECURSIVE StrExact(_, _)
\* the strings of exactly n characters over chars
StrExact(chars, n) ==
    IF n = 0 THEN {<<>>}
    ELSE {Append(q, c) : q \in StrExact(chars, n - 1), c \in chars}

\* the strings of at most n characters over chars
Strs(chars, n) == {SubSeq(q, 1, k) : q \in StrExact(chars, n), k \in 0..n}

\* the characters with an escape, and two ordinary ones
Chars == {"'", "\"", "\\", "\n", "\r", "\t", "<BS>", "\f", "_", "%", "a", "n"}

Tag1(key) == <<Item(key)>>

Tag2(key, pkey, pval) == <<Item(key), Param(pkey, pval)>>

\* select shapes: columns, parent relationships (nested structs), untagged members
ColID == Field("ID", Tag2(SelectColumn, FieldName, <<"Id">>), StringV(<<>>))

ColName == Field("Name", Tag2(SelectColumn, FieldName, <<"Name__c">>), StringV(<<>>))

ColDefault == Field("Count", Tag1(SelectColumn), IntV("int", 0))

ColTime == Field("LastRestart", Tag2(SelectColumn, FieldName, <<"Last_Restart__c">>), TimeV(0))

NonSoqlMember == Field("SomeNonSoqlMember", <<>>, StringV(<<>>))

NonNestedStruct == StructV(<<
    Field("Name", Tag2(SelectColumn, FieldName, <<"Name">>), StringV(<<>>)),
    Field("SomeValue", Tag2(SelectColumn, FieldName, <<"SomeValue__c">>), StringV(<<>>)),
    Field("NonSoqlStruct", <<>>, StructV(<<NonSoqlMember>>)) >>)

ColNested == Field("NonNestedStruct", Tag2(SelectColumn, FieldName, <<"NonNestedStruct__r">>),
                   NonNestedStruct)

\* a parent relationship two levels deep, the outer one under its declared name
ColDeep == Field("Owner", Tag1(SelectColumn), StructV(<<ColDefault, ColNested>>))

\* a nested struct none of whose members is tagged
ColBare == Field("Audit", Tag2(SelectColumn, FieldName, <<"Audit__r">>),
                 StructV(<<NonSoqlMember>>))

\* the Account shape of the introduction
AccountColumn(name, x) == Field(name, Tag2(SelectColumn, FieldName, <<name>>), x)

Account == StructV(<<
    AccountColumn("Name", StringV(<<>>)),
    AccountColumn("AccountNumber", StringV(<<>>)),
    AccountColumn("AccountSource", StringV(<<>>)),
    AccountColumn("BillingAddress", StringV(<<>>)),
    AccountColumn("HasOptedOutOfEmail", BoolV(FALSE)),
    AccountColumn("LastActivityDate", TimeV(0)),
    AccountColumn("NumberOfEmployees", IntV("int", 0)) >>)

ColumnPool == {ColID, ColName, ColDefault, ColTime, NonSoqlMember, ColNested, ColDeep, ColBare}

ColumnShapes == {StructV(fs) : fs \in InjSeqs(ColumnPool, MaxColumns)}

NestedStruct == StructV(<<ColID, ColName, ColNested>>)

RelationNames == {<<>>, <<"Role__r">>}

\* filter criteria: condition fields holding absent and present values
StrItems(strs) == [n \in 1..Len(strs) |-> StringV(strs[n])]

CondLike(strs) == Field("IncludeNamePattern", Tag2(LikeOperator, FieldName, <<"Host_Name__c">>),
                        SliceV("string", StrItems(strs)))

CondNotLike(strs) == Field("ExcludeNamePattern",
                           Tag2(NotLikeOperator, FieldName, <<"Host_Name__c">>),
                           SliceV("string", StrItems(strs)))

CondIn(strs) == Field("Roles", Tag2(InOperator, FieldName, <<"Role__r.Name">>),
                      SliceV("string", StrItems(strs)))

CondNotIn(strs) == Field("Role", Tag1(NotInOperator), SliceV("string", StrItems(strs)))

CondEquals(str) == Field("AssetType", Tag2(EqualsOperator, FieldName, <<"Asset_Type__c">>),
                         StringV(str))

CondNotEquals(str) == Field("Status", Tag2(NotEqualsOperator, FieldName, <<"Status__c">>),
                            StringV(str))

CondRelease(str) == Field("Release", Tag1(LessThanOrEqualsToOperator), StringV(str))

CondNull(x) == Field("AllowNullLastDiscoveredDate",
                     Tag2(NullOperator, FieldName, <<"Last_Discovered_Date__c">>), x)

CondCores(key, x) == Field("NumOfCPUCores", Tag2(key, FieldName, <<"Num_of_CPU_Cores__c">>), x)

CondDate(key, x) == Field("CreatedDate", Tag2(key, FieldName, <<"CreatedDate">>), x)

\* the condition fields whose value is absent
AbsentConditions ==
    {CondCores(key, NilPtr(IntV(k, 0))) :
        key \in {EqualsOperator, GreaterThanOperator}, k \in {"int", "uint8", "float64"}}
    \cup {CondDate(key, NilPtr(IntV("int", 0))) :
        key \in {GreaterNextNDaysOperator, LessOrEqualNextNDaysOperator,
                 EqualsLastNDaysOperator}}
    \cup {CondDate(LessThanOperator, NilPtr(TimeV(0))),
          Field("NUMAEnabled", Tag1(NotEqualsOperator), NilPtr(BoolV(FALSE))),
          CondNull(NilPtr(BoolV(FALSE))),
          CondLike(<<>>), CondNotLike(<<>>), CondIn(<<>>), CondNotIn(<<>>),
          Field("Sizes", Tag1(InOperator), SliceV("int", <<>>)),
          Field("Dates", Tag1(NotInOperator), SliceV("time.Time", <<>>))}

\* condition fields whose value is present
PresentConditions ==
    {CondCores(EqualsOperator, IntV("int", 0)),
     CondCores(GreaterThanOperator, PtrTo(IntV("int", 16))),
     CondDate(GreaterNextNDaysOperator, PtrTo(IntV("int", 0))),
     CondDate(LessThanOperator, PtrTo(TimeV(1))),
     Field("NUMAEnabled", Tag1(NotEqualsOperator), PtrTo(BoolV(FALSE))),
     CondNull(PtrTo(BoolV(FALSE))), CondNull(BoolV(TRUE)),
     CondLike(<< <<"-db">>, <<"-dbmgmt">> >>), CondNotLike(<< <<"-core">> >>),
     CondIn(<< <<"db">>, <<"dbmgmt">> >>),
     Field("Sizes", Tag1(InOperator), SliceV("int", <<IntV("int", 1), IntV("int", 2)>>)),
     CondEquals(<<"SERVER">>)}

ConditionCriteria ==
    {StructV(fs) : fs \in InjSeqs(AbsentConditions \cup PresentConditions, MaxConditions)}

\* one string under each kind of operator that renders a string literal
StringCondition(key, str) ==
    CASE key = EqualsOperator -> CondEquals(str)
      [] key = NotEqualsOperator -> CondNotEquals(str)
      [] key = LessThanOrEqualsToOperator -> CondRelease(str)
      [] key = InOperator -> CondIn(<<str>>)
      [] key = NotInOperator -> CondNotIn(<<str, <<"a">> >>)
      [] key = LikeOperator -> CondLike(<<str>>)
      [] key = NotLikeOperator -> CondNotLike(<<str>>)

StringCriteria ==
    {StructV(<<StringCondition(key, str)>>) :
        key \in {EqualsOperator, NotEqualsOperator, LessThanOrEqualsToOperator, InOperator,
                 NotInOperator, LikeOperator, NotLikeOperator},
        str \in Strs(Chars, MaxStrLen)}

CritPopulated == StructV(<<CondLike(<< <<"-db">>, <<"-dbmgmt">> >>), CondEquals(<<"SERVER">>)>>)

CritAbsent == StructV(<<CondLike(<<>>), CondEquals(<<>>), CondNull(NilPtr(BoolV(FALSE)))>>)

CritSingle == StructV(<<CondNotEquals(<<"Active">>)>>)

CritSub == StructV(<<
    CondEquals(<<"SERVER">>),
    Field("Position", Tag2(Subquery, Joiner, <<"o", "r">>),
                 StructV(<<CondCores(GreaterThanOperator, IntV("int", 16)),
                           CondNotEquals(<<"Active">>)>>)),
    Field("Skipped", Tag1(Subquery), NilPtr(StructV(<<CondNotEquals(<<"x">>)>>))),
    CondNull(BoolV(FALSE)) >>)

QueryCriteria == {CritPopulated, CritAbsent, CritSingle, CritSub, StructV(<<>>)}

\* order lists over the fields of NestedStruct
OrderList(orders) == SliceV("Order", orders)

OrdersValid == OrderList(<<OrderV(<<"Name">>, TRUE),
                           OrderV(<<"NonNestedStruct", ".", "SomeValue">>, FALSE),
                           OrderV(<<"ID">>, FALSE)>>)

OrdersSingle == OrderList(<<OrderV(<<"ID">>, TRUE)>>)

OrdersEmpty == OrderList(<<>>)

OrdersUnknown == OrderList(<<OrderV(<<"ID">>, FALSE), OrderV(<<"Nothing">>, FALSE)>>)

\* root fields of a query description
SelHost == Field("SelectClause", Tag2(SelectClause, TableName, <<"SM_Logical_Host__c">>),
                 NestedStruct)

RootWhere(name, joiner, criteria) ==
    Field(name, IF joiner = <<"-">> THEN Tag1(WhereClause) ELSE Tag2(WhereClause, Joiner, joiner),
          criteria)

RootOrder(name, orders) == Field(name, Tag1(OrderByClause), orders)

RootLimit(name, x) == Field(name, Tag1(LimitClause), x)

RootOffset(name, x) == Field(name, Tag1(OffsetClause), x)

\* at most one field per root role, in every declaration order
ClausePool ==
    {SelHost}
    \cup {RootWhere("WhereClause", <<"-">>, c) : c \in {CritPopulated, CritAbsent}}
    \cup {RootWhere("WhereClause", <<"O", "R">>, CritSub)}
    \cup {RootOrder("OrderByClause", o) : o \in {OrdersValid, OrdersEmpty}}
    \cup {RootLimit("Limit", x) : x \in {NilPtr(IntV("int", 0)), PtrTo(IntV("int", 0)),
                                         PtrTo(IntV("int", 5))}}
    \cup {RootOffset("Offset", x) : x \in {NilPtr(IntV("int", 0)), PtrTo(IntV("int", 3))}}

ClauseQueries == {StructV(fs) : fs \in InjSeqs(ClausePool, Cardinality(RootRoles))}

\* child relationships
ChildStruct == StructV(<<Field("Version", Tag2(SelectColumn, FieldName, <<"Version__c">>),
                               StringV(<<>>))>>)

ChildWithParent == StructV(<<Field("Version", Tag1(SelectColumn), StringV(<<>>)), ColNested>>)

ChildOrders == OrderList(<<OrderV(<<"Version">>, TRUE)>>)

SelChild(shape) ==
    Field("SelectClause", Tag2(SelectClause, TableName, <<"SM_Application_Versions__c">>), shape)

ChildRootPool ==
    {SelChild(ChildStruct), SelChild(ChildWithParent),
     RootWhere("WhereClause", <<"-">>, CritSingle), RootWhere("WhereClause", <<"o", "r">>, CritSub),
     RootOrder("OrderByClause", ChildOrders), RootOrder("OrderByClause", OrdersUnknown),
     RootLimit("Limit", PtrTo(IntV("int", 1))), RootLimit("Limit", PtrTo(IntV("int", -1))),
     RootLimit("AlsoLimit", PtrTo(IntV("int", 1))),
     RootOffset("Offset", PtrTo(IntV("int", 2))), NonSoqlMember}

ChildQueries == {StructV(fs) : fs \in InjSeqs(ChildRootPool, MaxRoots)}

ChildField(q) == Field("ChildStruct", Tag2(SelectChild, FieldName, <<"Application_Versions__r">>), q)

\* a select shape with a child relationship, directly and inside a parent relationship
ParentStruct(q) == StructV(<<ColID, ChildField(q), ColName>>)

OwnerStruct(q) == StructV(<<ColID, Field("Owner", Tag2(SelectColumn, FieldName, <<"Owner__r">>),
                                         StructV(<<ColName, ChildField(q)>>))>>)

ParentShapes ==
    {IF direct THEN ParentStruct(q) ELSE OwnerStruct(q) : direct \in BOOLEAN, q \in ChildQueries}
    \cup {StructV(<<ColID, ChildField(x)>>) :
             x \in {IntV("int", 0), StringV(<<>>), NilPtr(StructV(<<SelChild(ChildStruct)>>))}}

ParentQueries ==
    {StructV(<<Field("SelectClause", Tag2(SelectClause, TableName, <<"SM_Logical_Host__c">>), p),
               RootWhere("WhereClause", <<"-">>, CritSingle)>>) : p \in ParentShapes}

\* query descriptions with repeated, missing and malformed roots
RootPool ==
    {SelHost,
     Field("ParentStruct", Tag1(SelectClause), ParentStruct(StructV(<<SelChild(ChildStruct)>>))),
     Field("SelectText", Tag1(SelectClause), StringV(<<"Id">>)),
     RootWhere("WhereClause", <<"-">>, CritPopulated),
     RootWhere("WhereClause", <<"x", "o", "r">>, CritSingle),
     RootWhere("WhereClause2", <<"O", "R">>, StructV(<<Field("Bad", Tag1("badOperator"), StringV(<<>>))>>)),
     RootOrder("OrderByClause", OrdersSingle),
     RootOrder("OrderByClause", OrdersUnknown),
     RootOrder("OrderByClause2", OrdersEmpty),
     RootLimit("Limit", PtrTo(IntV("int", 5))),
     RootLimit("Limit", PtrTo(IntV("int", -5))),
     RootLimit("AlsoLimit", StringV(<<"5">>)),
     RootOffset("Offset", NilPtr(IntV("int", 0))),
     RootOffset("Offset", PtrTo(IntV("int", -1))),
     RootOffset("AlsoOffset", IntV("int", 3)),
     NonSoqlMember,
     Field("AnotherMember", Tag2("invalidClause", TableName, <<"SM_Logical_Host__c">>), NestedStruct)}

RootQueries == {StructV(fs) : fs \in InjSeqs(RootPool, MaxRoots)}

\* where-roots under every spelling of the joiner parameter
JoinerValues == {<<"-">>, <<>>, <<"o", "r">>, <<"O", "R">>, <<"O", "r">>, <<"o", "R">>,
                 <<"a", "n", "d">>, <<"A", "N", "D">>, <<"A", "n", "d">>,
                 <<"x", "o", "r">>, <<"o">>, <<"o", "r", "d">>, <<"n", "o", "r">>}

JoinerQueries ==
    {IF first THEN StructV(<<SelHost, RootWhere("WhereClause", j, c)>>)
     ELSE StructV(<<RootWhere("WhereClause", j, c), SelHost>>) :
        first \in BOOLEAN, j \in JoinerValues, c \in QueryCriteria}

\* inputs that fail after part of the text has been compiled: in a later
\* field of the criteria, inside a subgroup, in a later clause, inside a
\* child sub-query
BadCondition == Field("Bad", Tag1("badOperator"), StringV(<<>>))

CritLateBad == StructV(<<CondEquals(<<"SERVER">>), BadCondition>>)

CritBadSub == StructV(<<
    CondEquals(<<"SERVER">>),
    Field("Position", Tag2(Subquery, Joiner, <<"o", "r">>),
          StructV(<<CondCores(GreaterThanOperator, IntV("int", 16)), BadCondition>>)) >>)

ChildBadLimit == StructV(<<SelChild(ChildStruct), RootLimit("Limit", PtrTo(IntV("int", -1)))>>)

FailingPool ==
    {SelHost,
     Field("ParentStruct", Tag1(SelectClause), ParentStruct(ChildBadLimit)),
     RootWhere("WhereClause", <<"-">>, CritPopulated),
     RootWhere("WhereClause", <<"-">>, CritLateBad),
     RootWhere("WhereClause", <<"-">>, CritBadSub),
     RootOrder("OrderByClause", OrdersSingle),
     RootOrder("OrderByClause", OrdersUnknown),
     RootLimit("Limit", PtrTo(IntV("int", 5))),
     RootOffset("Offset", PtrTo(IntV("int", 3))),
     RootOffset("Offset", PtrTo(IntV("int", -1)))}

FailingQueries == {StructV(fs) : fs \in InjSeqs(FailingPool, MaxRoots)}

FailingCriteria == {CritPopulated, CritLateBad, CritBadSub, StructV(<<BadCondition>>)}

FailingShapes == {ParentStruct(ChildBadLimit), OwnerStruct(ChildBadLimit),
                  StructV(<<ColID, BadCondition>>)}

\* one condition field of every operator over values of every kind, alone
\* and next to a condition that is always rendered
ScalarValues ==
    {StringV(str) : str \in {<<>>, <<"a">>, <<"'">>}}
    \cup {IntV(k, n) : k \in {"int", "uint8", "int64", "float64"}, n \in {0, 5}}
    \cup {BoolV(b) : b \in BOOLEAN}
    \cup {TimeV(n) : n \in {0, 1}}

TypedValues ==
    ScalarValues
    \cup {PtrTo(x) : x \in ScalarValues}
    \cup {NilPtr(ZeroOf(x)) : x \in ScalarValues}
    \cup {SliceV("string", <<>>), SliceV("string", <<StringV(<<"a">>)>>),
          SliceV("int", <<IntV("int", 1)>>),
          StructV(<<CondEquals(<<"x">>)>>), PtrTo(StructV(<<CondEquals(<<"x">>)>>)),
          NilPtr(StructV(<<CondEquals(<<"x">>)>>))}

ConditionKeys == clauseBuilderKeys \cup {Subquery}

\* the condition is the only field, the first of two or the second of two
Placed(f, place) ==
    CASE place = "alone" -> StructV(<<f>>)
      [] place = "first" -> StructV(<<f, CondEquals(<<"SERVER">>)>>)
      [] place = "second" -> StructV(<<CondEquals(<<"SERVER">>), f>>)

TypedCriteria ==
    {Placed(CondDate(key, x), place) :
        key \in ConditionKeys, x \in TypedValues, place \in {"alone", "first", "second"}}

\* like and not-like conditions over lists of at most MaxPatterns patterns
Patterns == {<<"-", "d", "b">>, <<"a", "%">>, <<"_">>}

RECURSIVE PatternsExact(_)
PatternsExact(n) ==
    IF n = 0 THEN {<<>>}
    ELSE {Append(q, pattern) : q \in PatternsExact(n - 1), pattern \in Patterns}

PatternLists == {SubSeq(q, 1, k) : q \in PatternsExact(MaxPatterns), k \in 0..MaxPatterns}

LikeCriteria ==
    {Placed(IF exclude THEN CondNotLike(ps) ELSE CondLike(ps), place) :
        exclude \in BOOLEAN, ps \in PatternLists, place \in {"alone", "first", "second"}}

\* order lists of at most MaxOrders entries, over keys of the shapes below
\* and a name that is no key of any
OrderFields == {<<"ID">>, <<"Name">>, <<"NonNestedStruct", ".", "SomeValue">>, <<"LastRestart">>,
                <<"Owner", ".", "NonNestedStruct", ".", "Name">>, <<"Nothing">>}

RECURSIVE OrdersExact(_)
OrdersExact(n) ==
    IF n = 0 THEN {<<>>}
    ELSE {Append(q, OrderV(field, isDesc)) :
             q \in OrdersExact(n - 1), field \in OrderFields, isDesc \in BOOLEAN}

OrderLists == {OrderList(SubSeq(q, 1, k)) : q \in OrdersExact(MaxOrders), k \in 0..MaxOrders}

\* a shape with a date-time column and a parent relationship two levels deep
DeepStruct == StructV(<<ColID, ColTime, NonSoqlMember, ColDeep>>)

\* the shapes the order lists refer to; the last one declares no column
OrderShapes == {NestedStruct, DeepStruct, StructV(<<NonSoqlMember>>)}

\* order arguments and shapes with defects: blank and unknown fields, values
\* that are no list of Order, nil pointers, the nil interface, shapes that
\* are no struct or declare no column
DefectFields == {<<"ID">>, <<"Name">>, <<"Nothing">>, <<>>, <<" ">>, <<" ", "\t">>}

RECURSIVE DefectOrdersExact(_)
DefectOrdersExact(n) ==
    IF n = 0 THEN {<<>>}
    ELSE {Append(q, OrderV(field, FALSE)) : q \in DefectOrdersExact(n - 1), field \in DefectFields}

DefectLists ==
    {OrderList(SubSeq(q, 1, k)) : q \in DefectOrdersExact(MaxOrders), k \in 0..MaxOrders}

NotOrderLists ==
    {StringV(<<"test">>), IntV("int", 1), SliceV("string", <<StringV(<<"test">>)>>),
     SliceV("*Order", <<>>), StructV(<<>>), OrderV(<<"ID">>, FALSE),
     PtrTo(IntV("int", 1)), NilPtr(IntV("int", 0)), NilPtr(OrderList(<<>>)), Val("nil")}

OrderArguments ==
    {IF byPointer THEN PtrTo(x) ELSE x : x \in DefectLists, byPointer \in BOOLEAN}
    \cup NotOrderLists

DefectShapes ==
    {NestedStruct, PtrTo(NestedStruct), NilPtr(NestedStruct), StructV(<<NonSoqlMember>>),
     StructV(<<>>), StringV(<<"dummy">>), PtrTo(IntV("int", 1)), NilPtr(IntV("int", 0)),
     Val("nil")}

\* query description nodes none of whose fields is annotated, alone, behind
\* a pointer, and as the value of a child relationship of a select shape
UnannotatedPool ==
    {NonSoqlMember, Field("Count", <<>>, IntV("int", 0)),
     Field("Inner", <<>>, StructV(<<ColID>>)), Field("Limit", <<>>, PtrTo(IntV("int", 1)))}

BareNodes == {StructV(fs) : fs \in InjSeqs(UnannotatedPool, MaxColumns)}

BareInputs ==
    {CASE form = "node" -> q
       [] form = "pointer" -> PtrTo(q)
       [] form = "child" -> StructV(<<ChildField(q)>>)
       [] form = "sibling" -> ParentStruct(q)
       [] form = "query" -> StructV(<<Field("SelectClause", Tag1(SelectClause), ParentStruct(q))>>) :
        q \in BareNodes, form \in {"node", "pointer", "child", "sibling", "query"}}

\* filter criteria with subgroups: conditions that are rendered and absent
\* ones, subgroups with and without joiner, by value and behind pointers,
\* empty ones, nested ones, before and after their siblings
Sub(name, joiner, group) ==
    Field(name, IF joiner = <<"-">> THEN Tag1(Subquery) ELSE Tag2(Subquery, Joiner, joiner),
          group)

GroupLeaves ==
    {CondEquals(<<"a">>), CondNotEquals(<<"b">>), CondRelease(<<>>),
     CondNull(NilPtr(BoolV(FALSE)))}

InnerGroup == StructV(<<CondEquals(<<"p">>), CondNotEquals(<<"q">>)>>)

SubGroups ==
    {StructV(<<CondEquals(<<"x">>), CondNotEquals(<<"y">>)>>),
     StructV(<<CondEquals(<<"x">>), CondRelease(<<>>), CondNotEquals(<<"y">>)>>),
     StructV(<<CondEquals(<<"x">>), Sub("Position", <<"o", "r">>, InnerGroup),
               CondNotEquals(<<"y">>)>>),
     PtrTo(StructV(<<CondEquals(<<"x">>), CondNotEquals(<<"y">>)>>)),
     NilPtr(StructV(<<CondEquals(<<"x">>), CondNotEquals(<<"y">>)>>)),
     StructV(<<>>),
     StructV(<<CondRelease(<<>>), CondNull(NilPtr(BoolV(FALSE)))>>)}

GroupPool ==
    GroupLeaves
    \cup {Sub("Position", joiner, group) :
             joiner \in {<<"-">>, <<"o", "r">>, <<"A", "N", "D">>}, group \in SubGroups}
    \cup {Sub("Other", <<"O", "R">>, StructV(<<CondCores(EqualsOperator, IntV("int", 1)),
                                                 CondNotEquals(<<"z">>)>>)),
          Sub("Other", <<"x", "o", "r">>, NilPtr(InnerGroup)),
          Sub("Other", <<"x", "o", "r">>, InnerGroup)}

GroupCriteria == {StructV(fs) : fs \in InjSeqs(GroupPool, MaxSiblings)}

GroupQueries ==
    {StructV(<<SelHost, RootWhere("WhereClause", <<"o", "r">>, c)>>) : c \in GroupCriteria}

\* the criteria of at most two fields as the filter of a child relationship
GroupShapes ==
    {ParentStruct(StructV(<<SelChild(ChildStruct), RootWhere("WhereClause", <<"-">>, c)>>)) :
        c \in {c \in GroupCriteria : Len(c.fields) <= 2}}

\* one order entry for every name the fields of the column pool can be
\* reached under
ColumnKeys ==
    {<<"ID">>, <<"Name">>, <<"Count">>, <<"LastRestart">>, <<"Audit">>,
     <<"NonNestedStruct">>, <<"NonNestedStruct", ".", "Name">>,
     <<"NonNestedStruct", ".", "SomeValue">>,
     <<"Owner">>, <<"Owner", ".", "Count">>, <<"Owner", ".", "NonNestedStruct">>,
     <<"Owner", ".", "NonNestedStruct", ".", "Name">>}

ColumnOrders == {OrderList(<<OrderV(key, FALSE)>>) : key \in ColumnKeys}

\* filter criteria, select shapes and queries holding fields without a tag
PlainPool ==
    {NonSoqlMember, Field("Count", <<>>, IntV("int", 0)),
     CondEquals(<<"a">>), CondNotEquals(<<"b">>),
     Sub("Position", <<"-">>, StructV(<<CondEquals(<<"x">>), NonSoqlMember>>)),
     Sub("Other", <<"o", "r">>, NilPtr(StructV(<<NonSoqlMember>>)))}

PlainCriteria == {StructV(fs) : fs \in InjSeqs(PlainPool, MaxSiblings)}

PlainShapes == {StructV(fs) : fs \in InjSeqs({ColID, ColName, NonSoqlMember}, MaxSiblings)}

PlainQueries ==
    {StructV(<<NonSoqlMember, SelHost, RootWhere("WhereClause", <<"-">>, c)>>) :
        c \in {q \in PlainCriteria : Len(q.fields) <= 2}}

EmptyStruct == StructV(<<>>)

(***************************************************************************)
(* The state machine: the four entry points of the package applied to the  *)
(* arguments chosen initially (v, the relationship name rel handed to      *)
(* MarshalSelectClause and the shape s handed to MarshalOrderByClause); op *)
(* and out record the last call made and what it returned.                 *)
(***************************************************************************)
\* prev is what a caller has kept of the call before the last one: the entry
\* point, its result and the arguments as they were handed to it; NotKept
\* for a caller that keeps nothing
NotKept == [kept |-> FALSE, op |-> "none", out |-> Ok(<<>>),
            v |-> Val("nil"), rel |-> <<>>, s |-> Val("nil")]

NoCall == [NotKept EXCEPT !.kept = TRUE]

Kept == IF prev.kept THEN [kept |-> TRUE, op |-> op, out |-> out, v |-> v, rel |-> rel, s |-> s]
        ELSE prev

Start(x, r, shape) ==
    /\ v = x
    /\ rel = r
    /\ s = shape
    /\ op = "none"
    /\ out = Ok(<<>>)
    /\ prev = NotKept

\* the same before the calls of a caller that keeps the call before the last
StartKept(x, r, shape) ==
    /\ v = x
    /\ rel = r
    /\ s = shape
    /\ op = "none"
    /\ out = Ok(<<>>)
    /\ prev = NoCall

\* the calls on select shapes
InitSelect ==
    \E x \in ColumnShapes \cup {Account}, r \in RelationNames : Start(x, r, EmptyStruct)

\* the calls on filter criteria
InitWhere ==
    \/ \E x \in ConditionCriteria : Start(x, <<>>, EmptyStruct)
    \/ \E x \in StringCriteria : Start(x, <<>>, EmptyStruct)
    \/ \E x \in QueryCriteria : Start(x, <<>>, EmptyStruct)

\* the calls on query descriptions
InitQuery ==
    \/ \E x \in ClauseQueries : Start(x, <<>>, EmptyStruct)
    \/ \E x \in RootQueries : Start(x, <<>>, EmptyStruct)
    \/ \E x \in JoinerQueries : Start(x, <<>>, EmptyStruct)

\* the calls on the query descriptions of child relationships, on the shapes
\* that hold them and on the queries over those shapes
InitChild ==
    \/ \E x \in ChildQueries : Start(x, <<>>, EmptyStruct)
    \/ \E x \in ParentShapes, r \in RelationNames : Start(x, r, EmptyStruct)
    \/ \E x \in ParentQueries : Start(x, <<>>, EmptyStruct)

\* the calls on order lists
InitOrder ==
    \E x \in {OrdersValid, OrdersSingle, OrdersEmpty, OrdersUnknown} : Start(x, <<>>, NestedStruct)

\* the calls that fail part of the way
InitFailing ==
    \/ \E x \in FailingQueries : Start(x, <<>>, EmptyStruct)
    \/ \E x \in FailingCriteria : Start(x, <<>>, EmptyStruct)
    \/ \E x \in FailingShapes, r \in RelationNames : Start(x, r, EmptyStruct)
    \/ \E x \in {OrdersUnknown, OrdersSingle}, shape \in {NestedStruct, EmptyStruct} :
          Start(x, <<>>, shape)

\* the calls on single conditions of every operator and kind of value
InitCondition ==
    \/ \E x \in TypedCriteria : Start(x, <<>>, EmptyStruct)
    \/ \E x \in LikeCriteria : Start(x, <<>>, EmptyStruct)

\* the calls on generated order lists
InitOrderLists ==
    \E x \in OrderLists, shape \in OrderShapes : Start(x, <<>>, shape)

\* the calls on order arguments and shapes with defects
InitOrderDefects ==
    \E x \in OrderArguments, shape \in DefectShapes : Start(x, <<>>, shape)

\* the calls on nodes without annotated fields
InitBare ==
    \E x \in BareInputs, r \in RelationNames : Start(x, r, EmptyStruct)

\* calls made one after the other on the same arguments, of every entry
\* point, on inputs that compile and on inputs that fail
InitRepeat ==
    \/ \E x \in FailingQueries \cup FailingCriteria \cup QueryCriteria \cup JoinerQueries :
          StartKept(x, <<>>, NestedStruct)
    \/ \E x \in FailingShapes \cup {NestedStruct, Account}, r \in RelationNames :
          StartKept(x, r, EmptyStruct)
    \/ \E x \in {OrdersValid, OrdersSingle, OrdersEmpty, OrdersUnknown}, shape \in OrderShapes :
          StartKept(x, <<>>, shape)

\* the calls on filter criteria with subgroups and on the queries over them
InitGroups ==
    \E x \in GroupCriteria \cup GroupQueries \cup GroupShapes : Start(x, <<>>, EmptyStruct)

\* the calls ordering a select shape by one of its names
InitColumns ==
    \E x \in ColumnOrders, shape \in ColumnShapes : Start(x, <<>>, shape)

\* the calls on structs holding fields without a tag
InitPlain ==
    \E x \in PlainCriteria \cup PlainShapes \cup PlainQueries : Start(x, <<>>, EmptyStruct)

Init ==
    \/ InitSelect \/ InitWhere \/ InitQuery \/ InitChild \/ InitOrder \/ InitFailing
    \/ InitCondition \/ InitOrderLists \/ InitOrderDefects \/ InitBare
    \/ InitRepeat \/ InitGroups \/ InitColumns \/ InitPlain

CallMarshal ==
    /\ op' = "Marshal"
    /\ out' = Marshal(v)
    /\ prev' = Kept
    /\ UNCHANGED <<v, rel, s>>

\* the call writing the zero values it compiles nested structs from back
\* into the shape it was handed
CallMarshalSelectClauseZeroing ==
    /\ op' = "MarshalSelectClause"
    /\ out' = MarshalSelectClause(v, rel)
    /\ prev' = Kept
    /\ v' = ZeroOf(v)
    /\ UNCHANGED <<rel, s>>

CallMarshalSelectClause ==
    /\ op' = "MarshalSelectClause"
    /\ out' = MarshalSelectClause(v, rel)
    /\ prev' = Kept
    /\ UNCHANGED <<v, rel, s>>

CallMarshalWhereClause ==
    /\ op' = "MarshalWhereClause"
    /\ out' = MarshalWhereClause(v)
    /\ prev' = Kept
    /\ UNCHANGED <<v, rel, s>>

CallMarshalOrderByClause ==
    /\ op' = "MarshalOrderByClause"
    /\ out' = MarshalOrderByClause(v, s)
    /\ prev' = Kept
    /\ UNCHANGED <<v, rel, s>>

Next ==
    \/ CallMarshal
    \/ CallMarshalSelectClause
    \/ CallMarshalWhereClause
    \/ CallMarshalOrderByClause

Spec == Init /\ [][Next]_vars

SpecSelect == InitSelect /\ [][Next]_vars

SpecWhere == InitWhere /\ [][Next]_vars

SpecQuery == InitQuery /\ [][Next]_vars

SpecChild == InitChild /\ [][Next]_vars

SpecFailing == InitFailing /\ [][Next]_vars

SpecCondition == InitCondition /\ [][Next]_vars

SpecOrder == InitOrderLists /\ [][Next]_vars

SpecOrderDefects == InitOrderDefects /\ [][Next]_vars

SpecBare == InitBare /\ [][Next]_vars

SpecRepeat == InitRepeat /\ [][Next]_vars

SpecGroups == InitGroups /\ [][Next]_vars

SpecColumns == InitColumns /\ [][Next]_vars

SpecPlain == InitPlain /\ [][Next]_vars

(***************************************************************************)
(* Text helpers used to state the properties.                              *)
(***************************************************************************)
RECURSIVE JoinWith(_, _)
\* the texts of parts separated by sep
JoinWith(parts, sep) ==
    IF parts = <<>> THEN <<>>
    ELSE IF Len(parts) = 1 THEN parts[1]
    ELSE parts[1] \o sep \o JoinWith(Tail(parts), sep)

Quoted(str) == <<"'">> \o str \o <<"'">>

\* the qualified name a condition field is compiled under at top level
ConditionName(f) == IF \E n \in 1..Len(f.tag) : f.tag[n].eq /\ f.tag[n].k = "fieldName"
                    THEN (f.tag[CHOOSE n \in 1..Len(f.tag) : f.tag[n].eq /\ f.tag[n].k = "fieldName"]).val
                    ELSE <<f.name>>

(***************************************************************************)
(* C2  String escaping.                                                    *)
(***************************************************************************)
\* the escape of one character: a backslash and the corresponding character
\* for the eight (with like: ten) special characters, the character otherwise
EscapedChar(c, like) ==
    CASE c = "'" -> <<"\\", "'">>
      [] c = "\"" -> <<"\\", "\"">>
      [] c = "\\" -> <<"\\", "\\">>
      [] c = "\n" -> <<"\\", "n">>
      [] c = "\r" -> <<"\\", "r">>
      [] c = "\t" -> <<"\\", "t">>
      [] c = "<BS>" -> <<"\\", "b">>
      [] c = "\f" -> <<"\\", "f">>
      [] c = "_" /\ like -> <<"\\", "_">>
      [] c = "%" /\ like -> <<"\\", "%">>
      [] OTHER -> <<c>>

\* e(str): every character of the input escaped once, in order
Escaped(str, like) == JoinWith([n \in 1..Len(str) |-> EscapedChar(str[n], like)], <<>>)

\* the text C2 expects for a criteria of one string-valued condition field
StringConditionText(f) ==
    LET key == f.tag[1].k
        name == ConditionName(f)
        lits == [n \in 1..Len(f.v.items) |-> Quoted(Escaped(f.v.items[n].s, FALSE))]
        pattern == name \o <<" LIKE ", "'", "%">> \o Escaped(f.v.items[1].s, TRUE) \o <<"%", "'">>
    IN  CASE key = "equalsOperator" -> name \o <<" = ">> \o Quoted(Escaped(f.v.s, FALSE))
          [] key = "notEqualsOperator" -> name \o <<" != ">> \o Quoted(Escaped(f.v.s, FALSE))
          [] key = "lessThanOrEqualsToOperator" -> name \o <<" <= ">> \o Quoted(Escaped(f.v.s, FALSE))
          [] key = "inOperator" -> name \o <<" IN ", "(">> \o JoinWith(lits, <<",">>) \o <<")">>
          [] key = "notInOperator" -> name \o <<" NOT IN ", "(">> \o JoinWith(lits, <<",">>) \o <<")">>
          [] key = "likeOperator" -> pattern
          [] key = "notLikeOperator" -> <<"(", "NOT ">> \o pattern \o <<")">>

HasRoot(q, role) == \E n \in 1..Len(q.fields) : getClauseKey(q.fields[n].tag) = role

\* the (first) root field of the given role
RootOf(q, role) ==
    q.fields[CHOOSE n \in 1..Len(q.fields) :
                /\ getClauseKey(q.fields[n].tag) = role
                /\ \A m \in 1..(n - 1) : getClauseKey(q.fields[m].tag) # role]

\* the value of a parameter of a tag (the empty string when it has none)
ParamOf(tag, key) ==
    IF \E n \in 1..Len(tag) : tag[n].eq /\ tag[n].k = key
    THEN tag[CHOOSE n \in 1..Len(tag) : tag[n].eq /\ tag[n].k = key].val
    ELSE <<>>

\* the compiled text w of the where-root of q, joined as its joiner asks
WhereText(q) ==
    LET f == RootOf(q, WhereClause)
        j == ToLower(ParamOf(f.tag, Joiner))
    IN  marshalWhereClause(f.v, <<>>, IF j = <<"o", "r">> THEN orCondition ELSE andCondition).text

\* the compiled text o of the order-by-root of q against the select shape
OrderText(q) ==
    marshalOrderByClause(RootOf(q, OrderByClause).v, <<>>, RootOf(q, SelectClause).v).text

\* the query text C1 describes: the clauses in their fixed order whatever the
\* order of declaration
ClauseOrderText(q) ==
    LET sel == RootOf(q, SelectClause)
    IN  <<"SELECT ">> \o MarshalSelectClause(sel.v, <<>>).text
        \o <<" FROM ">> \o ParamOf(sel.tag, TableName)
        \o (IF HasRoot(q, WhereClause) /\ WhereText(q) # <<>>
            THEN <<" WHERE ">> \o WhereText(q) ELSE <<>>)
        \o (IF HasRoot(q, OrderByClause) /\ OrderText(q) # <<>>
            THEN <<" ORDER BY ">> \o OrderText(q) ELSE <<>>)
        \o (IF HasRoot(q, LimitClause) /\ ~RootOf(q, LimitClause).v.nil
            THEN <<" LIMIT ", ToString(RootOf(q, LimitClause).v.i)>> ELSE <<>>)
        \o (IF HasRoot(q, OffsetClause) /\ ~RootOf(q, OffsetClause).v.nil
            THEN <<" OFFSET ", ToString(RootOf(q, OffsetClause).v.i)>> ELSE <<>>)

\* C1: Marshal of a query description with one valid select-root and any
\* subset of valid where / order-by / limit / offset roots, declared in any
\* order, returns SELECT .. FROM .. then WHERE (iff its text is non-empty),
\* ORDER BY (iff its text is non-empty), LIMIT (iff non-nil), OFFSET (iff
\* non-nil), always in this order.
C1_ClauseOrder ==
    (op = "Marshal" /\ v \in ClauseQueries /\ HasRoot(v, SelectClause))
    => out = Ok(ClauseOrderText(v))

\* offset, limit, order-by and where declared in reverse, ahead of the select
C1_Witness ==
    /\ op = "Marshal"
    /\ v = StructV(<<RootOffset("Offset", PtrTo(IntV("int", 3))),
                     RootLimit("Limit", PtrTo(IntV("int", 0))),
                     RootOrder("OrderByClause", OrdersValid),
                     RootWhere("WhereClause", <<"-">>, CritPopulated),
                     SelHost>>)
    /\ out.err = NoErr
    /\ SubSeq(out.text, Len(out.text) - 3, Len(out.text)) = <<" LIMIT ", "0", " OFFSET ", "3">>

(***************************************************************************)
(* C3  Entries of the select text.                                         *)
(***************************************************************************)
RECURSIVE Entries(_, _, _)
\* the entries C3 describes for the fields of a shape from field i on: one
\* per scalar column (a date-time is a scalar), those of its struct for a
\* nested struct, none for a field without tag
Entries(fields, i, prefix) ==
    IF i > Len(fields) THEN <<>>
    ELSE
    LET f == fields[i]
        name == prefix \o ConditionName(f)
        own == IF f.tag = <<>> THEN <<>>
               ELSE IF f.v.kind = "struct" /\ ~f.v.ptr THEN Entries(f.v.fields, 1, name \o <<".">>)
               ELSE << name >>
    IN  own \o Entries(fields, i + 1, prefix)

\* C3: MarshalSelectClause(shape, rel) is the comma-join, in declaration
\* order and depth first, of prefix+name for every scalar column and of the
\* recursively compiled entries of every nested struct column; fields
\* without a soql tag contribute nothing.
C3_SelectEntries ==
    (op = "MarshalSelectClause" /\ v \in ColumnShapes)
    => out = Ok(JoinWith(Entries(v.fields, 1,
                                 IF rel = <<>> THEN <<>> ELSE rel \o <<".">>), <<",">>))

\* the same over the shapes whose struct columns all hold a tagged field
C3_SelectEntriesPopulated ==
    (op = "MarshalSelectClause" /\ v \in ColumnShapes
        /\ \A n \in 1..Len(v.fields) : v.fields[n] \notin {ColTime, ColBare})
    => out = Ok(JoinWith(Entries(v.fields, 1,
                                 IF rel = <<>> THEN <<>> ELSE rel \o <<".">>), <<",">>))

(***************************************************************************)
(* C4  Child relationships.                                                *)
(***************************************************************************)
\* the tokens that begin a column reference in the child query descriptions
ChildColumnTokens == {"Version__c", "Version", "NonNestedStruct__r", "Status__c", "Asset_Type__c",
                      "Num_of_CPU_Cores__c", "Last_Discovered_Date__c"}

\* text with T and `.` put before every column reference
Qualify(text, T) ==
    JoinWith([n \in 1..Len(text) |->
                 IF text[n] \in ChildColumnTokens /\ (n = 1 \/ text[n - 1] # ".")
                 THEN T \o <<".", text[n]>> ELSE <<text[n]>>], <<>>)

\* text with the (one-token) FROM target replaced by target
ReFrom(text, target) ==
    LET at == CHOOSE n \in 1..Len(text) : text[n] = " FROM "
    IN  SubSeq(text, 1, at) \o target \o SubSeq(text, at + 2, Len(text))

\* the rendering C4 describes for the child query description q under the
\* name target (P+R): the top-level text of q with every column reference
\* prefixed by the table name, the FROM target replaced, in parentheses
ChildText(q, target) ==
    <<"(">> \o ReFrom(Qualify(Marshal(q).text, ParamOf(RootOf(q, SelectClause).tag, TableName)),
                      target)
            \o <<")">>

\* the child query description q compiles at top level
Compiles(q) == HasRoot(q, SelectClause) /\ Marshal(q).err = NoErr

\* a top-level text: no enclosing parenthesis, the table name T is the FROM
\* target and prefixes nothing
TopLevelForm(text, T) ==
    /\ text[1] = "SELECT "
    /\ \E n \in 2..Len(text) : text[n] = T
    /\ \A n \in 1..Len(text) :
          text[n] = T => /\ n > 1 /\ text[n - 1] = " FROM "
                         /\ (n = Len(text) \/ text[n + 1] # ".")
    /\ \A n \in 1..Len(text) :
          (text[n] \in ChildColumnTokens /\ n > 2 /\ text[n - 1] = ".")
          => text[n - 2] \in ChildColumnTokens

\* C4: a child relationship R met under prefix P is rendered as the
\* parenthesised query SELECT .. FROM P+R .. whose select columns, condition
\* fields (also in subgroups) and order-by columns carry the prefix T and `.`,
\* T being the table name of its select-root; a top-level query has no
\* parentheses, has the table name as FROM target and prefixes no column.
\* (Inside a parent relationship the child is compiled from the zero value of
\* the parent's type, which is what the code hands over.)
C4_ChildRelation ==
    LET P == IF rel = <<>> THEN <<>> ELSE rel \o <<".">>
        R == <<"Application_Versions__r">>
        q == v.fields[2].v
        z == ZeroOf(v.fields[2].v.fields[2].v)
    IN  /\ (op = "MarshalSelectClause" /\ Len(v.fields) = 3 /\ v = ParentStruct(q)
              /\ q \in ChildQueries /\ Compiles(q))
            => out = Ok(P \o <<"Id", ",">> \o ChildText(q, P \o R) \o <<",">> \o P \o <<"Name__c">>)
        /\ (op = "MarshalSelectClause" /\ Len(v.fields) = 2 /\ Len(q.fields) = 2
              /\ q.fields[2].v \in ChildQueries /\ v = OwnerStruct(q.fields[2].v) /\ Compiles(z))
            => out = Ok(P \o <<"Id", ",">> \o P \o <<"Owner__r", ".", "Name__c", ",">>
                        \o ChildText(z, P \o <<"Owner__r", ".">> \o R))
        /\ (op = "Marshal" /\ v \in ChildQueries /\ Compiles(v))
            => /\ out.err = NoErr
               /\ TopLevelForm(out.text, <<"SM_Application_Versions__c">>[1])
        /\ (op = "Marshal" /\ v \in ParentQueries /\ out.err = NoErr)
            => /\ out.text[1] = "SELECT "
               /\ SubSeq(out.text, Len(out.text) - 7, Len(out.text))
                    = <<" FROM ", "SM_Logical_Host__c", " WHERE ", "Status__c", " != ">>
                      \o <<"'", "Active", "'">>

\* a child with a nested column, a grouped filter joined by OR, an order and a
\* limit, declared out of order and compiled under the prefix Role__r.
C4_Witness ==
    LET T == "SM_Application_Versions__c"
    IN  /\ op = "MarshalSelectClause"
        /\ rel = <<"Role__r">>
        /\ v = ParentStruct(StructV(<<RootOrder("OrderByClause", ChildOrders),
                                      RootWhere("WhereClause", <<"o", "r">>, CritSub),
                                      SelChild(ChildWithParent)>>))
        /\ out = Ok(<<"Role__r", ".", "Id", ",", "(", "SELECT ", T, ".", "Version", ",",
                      T, ".", "NonNestedStruct__r", ".", "Name", ",",
                      T, ".", "NonNestedStruct__r", ".", "SomeValue__c",
                      " FROM ", "Role__r", ".", "Application_Versions__r",
                      " WHERE ", T, ".", "Asset_Type__c", " = ", "'", "SERVER", "'", " OR ",
                      "(", T, ".", "Num_of_CPU_Cores__c", " > ", "16", " OR ",
                      T, ".", "Status__c", " != ", "'", "Active", "'", ")", " OR ",
                      T, ".", "Last_Discovered_Date__c", " != ", "null",
                      " ORDER BY ", T, ".", "Version", " DESC", ")", ",",
                      "Role__r", ".", "Name__c">>)

(***************************************************************************)
(* C5  Absent values.                                                      *)
(***************************************************************************)
\* the fields of a criteria whose value is present
PresentFields(criteria) == SelectSeq(criteria.fields, LAMBDA f : f \notin AbsentConditions)

\* the query over NestedStruct filtered by criteria
QueryOver(criteria) == StructV(<<SelHost, RootWhere("WhereClause", <<"-">>, criteria)>>)

\* C5: a condition field whose value is absent (a nil pointer under a
\* comparison, relative-date or null operator, an empty sequence under like /
\* not-like / in / not-in) contributes neither a fragment nor a joiner: the
\* text is that of the criteria without these fields; when every field is
\* absent it is empty, without error, and Marshal emits no WHERE keyword.
C5_AbsentValues ==
    (op = "MarshalWhereClause" /\ v \in ConditionCriteria)
    => /\ out = MarshalWhereClause(StructV(PresentFields(v)))
       /\ out.err = NoErr
       /\ PresentFields(v) = <<>>
           => /\ out = Ok(<<>>)
              /\ out = MarshalWhereClause(EmptyStruct)
              /\ Marshal(QueryOver(v))
                   = Ok(<<"SELECT ", "Id", ",", "Name__c", ",", "NonNestedStruct__r", ".", "Name",
                          ",", "NonNestedStruct__r", ".", "SomeValue__c",
                          " FROM ", "SM_Logical_Host__c">>)

\* a nil *bool under nullOperator ahead of a populated condition
C5_Witness ==
    /\ op = "MarshalWhereClause"
    /\ v = StructV(<<CondNull(NilPtr(BoolV(FALSE))), CondEquals(<<"SERVER">>)>>)
    /\ out = Ok(<<"Asset_Type__c", " = ", "'", "SERVER", "'">>)

(***************************************************************************)
(* C6  Joiner of the where-root.                                           *)
(***************************************************************************)
OrSpellings == {<<a, b>> : a \in {"o", "O"}, b \in {"r", "R"}}

AndSpellings == {<<a, b, c>> : a \in {"a", "A"}, b \in {"n", "N"}, c \in {"d", "D"}}

\* does the tag carry the parameter key
HasParam(tag, key) == \E n \in 1..Len(tag) : tag[n].eq /\ tag[n].k = key

\* the non-empty top-level fragments of a criteria, in declaration order
Fragments(criteria) ==
    LET all == [n \in 1..Len(criteria.fields) |-> PartialClause(criteria.fields[n], <<>>).text]
    IN  SelectSeq(all, LAMBDA text : text # <<>>)

\* the query text over NestedStruct with the filter text w
HostQueryText(w) ==
    <<"SELECT ", "Id", ",", "Name__c", ",", "NonNestedStruct__r", ".", "Name",
      ",", "NonNestedStruct__r", ".", "SomeValue__c", " FROM ", "SM_Logical_Host__c">>
    \o (IF w # <<>> THEN <<" WHERE ">> \o w ELSE <<>>)

\* what C6 expects of Marshal on the query q; andToo holds the joiner values
\* that join with AND besides the spellings of `and`
JoinerResult(q, andToo) ==
    LET w == RootOf(q, WhereClause)
        j == ParamOf(w.tag, Joiner)
    IN  IF HasParam(w.tag, Joiner) /\ j \in OrSpellings
        THEN Ok(HostQueryText(JoinWith(Fragments(w.v), <<" OR ">>)))
        ELSE IF ~HasParam(w.tag, Joiner) \/ j \in AndSpellings \/ j \in andToo
        THEN Ok(HostQueryText(JoinWith(Fragments(w.v), <<" AND ">>)))
        ELSE Fail(ErrInvalidTag)

\* what C6 says of MarshalWhereClause on the criteria of the where-root of q
AlwaysAnd(q) ==
    LET w == RootOf(q, WhereClause)
    IN  /\ MarshalWhereClause(w.v) = Ok(JoinWith(Fragments(w.v), <<" AND ">>))
        /\ ~HasParam(w.tag, Joiner) => out = Ok(HostQueryText(MarshalWhereClause(w.v).text))

ValidRoots ==
    {f \in ClausePool : getClauseKey(f.tag) \notin {LimitClause, OffsetClause}}
    \cup {RootWhere("WhereClause", <<"-">>, CritPopulated),
          RootOrder("OrderByClause", OrdersSingle), RootOrder("OrderByClause2", OrdersEmpty),
          NonSoqlMember}

\* the number of fields of q carrying the role
Roots(q, role) == Cardinality({n \in 1..Len(q.fields) : getClauseKey(q.fields[n].tag) = role})

\* q is valid but possibly for the value of its limit-root and offset-root
OtherwiseValid(q) ==
    /\ \A n \in 1..Len(q.fields) :
          q.fields[n] \in ValidRoots
          \/ getClauseKey(q.fields[n].tag) \in {LimitClause, OffsetClause}
    /\ Roots(q, SelectClause) = 1
    /\ \A role \in RootRoles : Roots(q, role) <= 1

\* a value that is no *int, or points to a negative integer
BadPaging(x) == ~(x.ptr /\ x.kind = "int") \/ (~x.nil /\ x.i < 0)

\* C7: in an otherwise valid query, a nil *int as limit (offset) omits the
\* clause, a pointer to n >= 0 appends LIMIT n (OFFSET n) in decimal, and a
\* pointer to a negative integer or a value of another type than *int makes
\* Marshal return ErrInvalidLimitClause (ErrInvalidOffsetClause) and no text.
C7_Paging ==
    LET badLimit == HasRoot(v, LimitClause) /\ BadPaging(RootOf(v, LimitClause).v)
        badOffset == HasRoot(v, OffsetClause) /\ BadPaging(RootOf(v, OffsetClause).v)
    IN  (op = "Marshal" /\ (v \in RootQueries \/ v \in ClauseQueries) /\ OtherwiseValid(v))
        => /\ badLimit => out = Ret(<<>>, ErrInvalidLimitClause)
           /\ (badOffset /\ ~badLimit) => out = Ret(<<>>, ErrInvalidOffsetClause)
           /\ (~badLimit /\ ~badOffset) => out = Ok(ClauseOrderText(v))

\* limit 0 is rendered, the nil offset is not
C7_Witness ==
    /\ op = "Marshal"
    /\ v = StructV(<<RootOffset("Offset", NilPtr(IntV("int", 0))), SelHost,
                     RootLimit("Limit", PtrTo(IntV("int", 0)))>>)
    /\ out = Ok(HostQueryText(<<>>) \o <<" LIMIT ", "0">>)

\* a negative limit is refused
C7_WitnessNegative ==
    /\ op = "Marshal"
    /\ v = StructV(<<SelHost, RootLimit("Limit", PtrTo(IntV("int", -5)))>>)
    /\ out = Ret(<<>>, ErrInvalidLimitClause)

(***************************************************************************)
(* C8  Two select-roots.                                                   *)
(***************************************************************************)
\* the role of the n-th field of q ("" for a field without annotation)
RoleAt(q, n) == getClauseKey(q.fields[n].tag)

\* the n-th field of q repeats the role of an earlier field
Repeats(q, n) == q.fields[n].tag # <<>> /\ \E m \in 1..(n - 1) : RoleAt(q, m) = RoleAt(q, n)

\* the joiner parameter of the tag is absent, empty or a spelling of and / or
ValidJoiner(tag) ==
    HasParam(tag, Joiner) => ParamOf(tag, Joiner) \in OrSpellings \cup AndSpellings \cup {<<>>}

\* the n-th field of q bears no annotation or a recognised root role, with a
\* valid joiner on a where-root
Recognised(q, n) ==
    \/ q.fields[n].tag = <<>>
    \/ /\ RoleAt(q, n) \in RootRoles
       /\ RoleAt(q, n) = WhereClause => ValidJoiner(q.fields[n].tag)

\* the loop over the fields of q reaches the n-th field: the fields before it
\* are recognised, none repeats a role, and the shape of a select-root among
\* them compiles
Reaches(q, n) ==
    \A m \in 1..(n - 1) :
        /\ Recognised(q, m)
        /\ ~Repeats(q, m)
        /\ RoleAt(q, m) = SelectClause
           => MarshalSelectClause(q.fields[m].v, <<>>).err = NoErr

\* the position of the second select-root of q
SecondSelect(q) ==
    CHOOSE n \in 1..Len(q.fields) :
        /\ RoleAt(q, n) = SelectClause
        /\ Cardinality({m \in 1..(n - 1) : RoleAt(q, m) = SelectClause}) = 1

\* C8 as stated: Marshal of a query description with two fields tagged
\* selectClause returns ErrMultipleSelectClause whatever the fields hold.
C8_TwoSelectsAsStated ==
    (op = "Marshal" /\ v \in RootQueries /\ Roots(v, SelectClause) >= 2)
    => out = Fail(ErrMultipleSelectClause)

\* C8: Marshal of a query description with two fields tagged selectClause
\* returns ErrMultipleSelectClause when the second of them is reached, that is
\* when the fields declared before it are recognised, repeat no role and the
\* shape of the first select-root compiles; what the second select-root and
\* the fields after it hold is not inspected.
C8_TwoSelects ==
    (op = "Marshal" /\ v \in RootQueries /\ Roots(v, SelectClause) >= 2
        /\ Reaches(v, SecondSelect(v)))
    => out = Fail(ErrMultipleSelectClause)

\* the second select-root holds a string and an unknown role follows it
C8_Witness ==
    /\ op = "Marshal"
    /\ v = StructV(<<SelHost, Field("SelectText", Tag1(SelectClause), StringV(<<"Id">>)),
                     Field("AnotherMember", Tag2("invalidClause", TableName, <<"SM_Logical_Host__c">>),
                           NestedStruct)>>)
    /\ out = Fail(ErrMultipleSelectClause)

(***************************************************************************)
(* C9  No select-root.                                                     *)
(***************************************************************************)
\* q has annotated fields, all of them recognised, no role twice, no select-root
NoSelectRoot(q) ==
    /\ (\E n \in 1..Len(q.fields) : q.fields[n].tag # <<>>)
    /\ (\A n \in 1..Len(q.fields) : Recognised(q, n) /\ ~Repeats(q, n))
    /\ ~HasRoot(q, SelectClause)

\* p is the select shape ParentStruct(q) or OwnerStruct(q) of such a q
HoldsNoSelectChild(p) ==
    \/ /\ Len(p.fields) = 3
       /\ p = ParentStruct(p.fields[2].v)
       /\ NoSelectRoot(p.fields[2].v)
    \/ /\ Len(p.fields) = 2
       /\ Len(p.fields[2].v.fields) = 2
       /\ p = OwnerStruct(p.fields[2].v.fields[2].v)
       /\ NoSelectRoot(p.fields[2].v.fields[2].v)

\* C9: a query description with at least one annotated field, every annotated
\* field recognised with a valid joiner, no role twice and no select-root
\* compiles to ErrNoSelectClause, by Marshal and as the value of a child
\* relationship, whatever its where, order, limit and offset roots hold.
C9_NoSelect ==
    /\ (op = "Marshal" /\ v \in ChildQueries /\ NoSelectRoot(v))
       => out = Fail(ErrNoSelectClause)
    /\ (op = "MarshalSelectClause" /\ v \in ParentShapes /\ HoldsNoSelectChild(v))
       => out = Fail(ErrNoSelectClause)
    /\ (op = "Marshal" /\ v \in ParentQueries /\ HoldsNoSelectChild(v.fields[1].v))
       => out = Fail(ErrNoSelectClause)

\* a negative limit and an order list naming an unknown field, no select-root
C9_Witness ==
    /\ op = "Marshal"
    /\ v = StructV(<<RootLimit("Limit", PtrTo(IntV("int", -1))),
                     RootOrder("OrderByClause", OrdersUnknown)>>)
    /\ out = Fail(ErrNoSelectClause)

\* the same as the value of a child relationship
C9_WitnessChild ==
    /\ op = "MarshalSelectClause"
    /\ v = ParentStruct(StructV(<<RootWhere("WhereClause", <<"-">>, CritSingle),
                                  RootLimit("Limit", PtrTo(IntV("int", -1)))>>))
    /\ out = Fail(ErrNoSelectClause)

(***************************************************************************)
(* C10  A role other than select carried by two fields.                    *)
(***************************************************************************)
\* the error of a repeated role
MultipleError(role) ==
    CASE role = WhereClause -> ErrMultipleWhereClause
      [] role = OrderByClause -> ErrMultipleOrderByClause
      [] role = LimitClause -> ErrMultipleLimitClause
      [] role = OffsetClause -> ErrMultipleOffsetClause
      [] OTHER -> ErrMultipleSelectClause

\* the position of the first field of q that repeats a role
FirstRepeat(q) ==
    CHOOSE n \in 1..Len(q.fields) : Repeats(q, n) /\ \A m \in 1..(n - 1) : ~Repeats(q, m)

\* C10: when every annotated field is recognised with a valid joiner, the
\* select-root declared before the duplicate (if any) has a valid shape and a
\* role among where, order, limit and offset is carried by two fields, Marshal
\* returns the ErrMultiple...Clause error of the first role met for the second
\* time in declaration order, whatever the fields hold and also without a
\* select-root.
C10_RepeatedRole ==
    (op = "Marshal" /\ v \in RootQueries
        /\ (\A n \in 1..Len(v.fields) : Recognised(v, n))
        /\ Roots(v, SelectClause) <= 1
        /\ (\E n \in 1..Len(v.fields) : Repeats(v, n))
        /\ \A m \in 1..(FirstRepeat(v) - 1) :
              RoleAt(v, m) = SelectClause => MarshalSelectClause(v.fields[m].v, <<>>).err = NoErr)
    => out = Fail(MultipleError(RoleAt(v, FirstRepeat(v))))

\* two limit-roots of which the first is negative and the second a string,
\* no select-root
C10_Witness ==
    /\ op = "Marshal"
    /\ v = StructV(<<RootLimit("Limit", PtrTo(IntV("int", -5))),
                     RootLimit("AlsoLimit", StringV(<<"5">>))>>)
    /\ out = Fail(ErrMultipleLimitClause)

\* two where-roots after the select-root, the second with malformed criteria
C10_WitnessWhere ==
    /\ op = "Marshal"
    /\ v = StructV(<<SelHost, RootWhere("WhereClause", <<"-">>, CritPopulated),
                     RootWhere("WhereClause2", <<"O", "R">>,
                               StructV(<<Field("Bad", Tag1("badOperator"), StringV(<<>>))>>))>>)
    /\ out = Fail(ErrMultipleWhereClause)

(***************************************************************************)
(* C11  No text is returned with an error.                                 *)
(***************************************************************************)
\* the call has returned an error (a panic returns nothing)
ReturnedError == op # "none" /\ out.err \notin {NoErr, Panic}

\* C11: whenever Marshal, MarshalSelectClause, MarshalWhereClause or
\* MarshalOrderByClause returns an error, the text returned with it is empty,
\* wherever the failure arises.
C11_NoPartialText == ReturnedError => out.text = <<>>

\* an invalid offset after a valid select and where
C11_Witness ==
    /\ op = "Marshal"
    /\ v = StructV(<<SelHost, RootWhere("WhereClause", <<"-">>, CritPopulated),
                     RootOffset("Offset", PtrTo(IntV("int", -1)))>>)
    /\ out = Ret(<<>>, ErrInvalidOffsetClause)

\* an unknown operator after a compiled condition, inside a subgroup
C11_WitnessSubgroup ==
    /\ op = "MarshalWhereClause"
    /\ v = CritBadSub
    /\ out = Ret(<<>>, ErrInvalidTag)

\* a negative limit inside a child sub-query
C11_WitnessChild ==
    /\ op = "MarshalSelectClause"
    /\ v = ParentStruct(ChildBadLimit)
    /\ out = Ret(<<>>, ErrInvalidLimitClause)

(***************************************************************************)
(* Single conditions: the condition under test and the text around it.     *)
(***************************************************************************)
\* the condition under test of a criteria of TypedCriteria or LikeCriteria
ProbeOf(c) == c.fields[CHOOSE n \in 1..Len(c.fields) : c.fields[n].name # "AssetType"]

\* the condition next to it, which is always rendered
ServerText == <<"Asset_Type__c", " = ", "'", "SERVER", "'">>

\* the text of the criteria c when its condition under test renders frag
\* (the empty frag: no condition and no joiner)
Around(c, frag) ==
    IF Len(c.fields) = 1 THEN frag
    ELSE IF frag = <<>> THEN ServerText
    ELSE IF c.fields[1].name = "AssetType" THEN ServerText \o <<" AND ">> \o frag
    ELSE frag \o <<" AND ">> \o ServerText

(***************************************************************************)
(* C12  like and not-like groups.                                          *)
(***************************************************************************)
\* the fragment C12 expects of the like / not-like field f
LikeText(f) ==
    LET name == ConditionName(f)
        exclude == f.tag[1].k = "notLikeOperator"
        parts == [n \in 1..Len(f.v.items) |->
                    IF exclude
                    THEN <<"(", "NOT ">> \o name \o <<" LIKE ", "'", "%">>
                         \o Escaped(f.v.items[n].s, TRUE) \o <<"%", "'", ")">>
                    ELSE name \o <<" LIKE ", "'", "%">>
                         \o Escaped(f.v.items[n].s, TRUE) \o <<"%", "'">>]
        joined == JoinWith(parts, IF exclude THEN <<" AND ">> ELSE <<" OR ">>)
    IN  IF Len(parts) >= 2 THEN <<"(">> \o joined \o <<")">> ELSE joined

\* C12: a like (not-like) field with patterns p1..pN yields nothing for N = 0,
\* renders each pattern as f LIKE '%p%' ((NOT f LIKE '%p%')) with p escaped,
\* joins them in input order by OR (AND), and wraps the whole in one more
\* pair of parentheses exactly when N >= 2.
C12_LikeGroups ==
    (op = "MarshalWhereClause" /\ v \in LikeCriteria)
    => out = Ok(Around(v, LikeText(ProbeOf(v))))

\* two not-like patterns: each parenthesised, and the group once more
C12_Witness ==
    /\ op = "MarshalWhereClause"
    /\ v = StructV(<<CondNotLike(<< <<"a", "%">>, <<"_">> >>)>>)
    /\ out = Ok(<<"(", "(", "NOT ", "Host_Name__c", " LIKE ", "'", "%", "a", "\\", "%", "%", "'", ")",
                  " AND ",
                  "(", "NOT ", "Host_Name__c", " LIKE ", "'", "%", "\\", "_", "%", "'", ")", ")">>)

\* one like pattern: no parenthesis
C12_WitnessOne ==
    /\ op = "MarshalWhereClause"
    /\ v = StructV(<<CondLike(<< <<"-", "d", "b">> >>)>>)
    /\ out = Ok(<<"Host_Name__c", " LIKE ", "'", "%", "-", "d", "b", "%", "'">>)

(***************************************************************************)
(* C13  A date-time column in the select text.                             *)
(***************************************************************************)
\* C13: every selectColumn field, one of type time.Time included, contributes
\* its column name: MarshalSelectClause(Account{}, "") returns the seven names
\* of the Account shape in declaration order.
C13_AccountColumns ==
    (op = "MarshalSelectClause" /\ v = Account /\ rel = <<>>)
    => out = Ok(<<"Name", ",", "AccountNumber", ",", "AccountSource", ",", "BillingAddress", ",",
                  "HasOptedOutOfEmail", ",", "LastActivityDate", ",", "NumberOfEmployees">>)

\* what the code returns: the entry of LastActivityDate is empty
C13_EmptyEntry ==
    (op = "MarshalSelectClause" /\ v = Account /\ rel = <<>>)
    => out = Ok(<<"Name", ",", "AccountNumber", ",", "AccountSource", ",", "BillingAddress", ",",
                  "HasOptedOutOfEmail", ",", ",", "NumberOfEmployees">>)

(***************************************************************************)
(* C14  Pointer forms under the comparison operators.                      *)
(***************************************************************************)
ComparisonKeys == {EqualsOperator, NotEqualsOperator, GreaterThanOperator,
                   GreaterThanOrEqualsToOperator, LessThanOperator, LessThanOrEqualsToOperator}

\* the operator text of a comparison key
ComparisonText(key) ==
    CASE key = "equalsOperator" -> <<" = ">>
      [] key = "notEqualsOperator" -> <<" != ">>
      [] key = "greaterThanOperator" -> <<" > ">>
      [] key = "greaterThanOrEqualsToOperator" -> <<" >= ">>
      [] key = "lessThanOperator" -> <<" < ">>
      [] key = "lessThanOrEqualsToOperator" -> <<" <= ">>

\* the literal of a scalar that is no string
Literal(x) ==
    IF x.kind = "bool" THEN <<IF x.b THEN "true" ELSE "false">>
    ELSE IF x.kind = "time.Time" THEN FormatDate(x)
    ELSE <<ToString(x.i)>>

\* a criteria of TypedCriteria whose condition under test is a comparison
ComparisonCase == op = "MarshalWhereClause" /\ v \in TypedCriteria
                  /\ ProbeOf(v).tag[1].k \in ComparisonKeys

\* C14 as stated: a comparison operator accepts a *string as it accepts the
\* other pointer forms: nil omits the condition, non-nil (the empty string
\* included) renders <field> <op> '<escaped value>'.
C14_StringPointerAsStated ==
    LET f == ProbeOf(v)
    IN  (ComparisonCase /\ f.v.ptr /\ f.v.kind = "string")
        => out = Ok(Around(v, IF f.v.nil THEN <<>>
                              ELSE ConditionName(f) \o ComparisonText(f.tag[1].k)
                                   \o Quoted(Escaped(f.v.s, FALSE))))

\* C14: a comparison operator accepts the pointer forms of the integer, float
\* and bool kinds and of time.Time (nil omits the condition, non-nil renders
\* <field> <op> <value>), but a *string, nil or not, yields ErrInvalidTag.
C14_PointerForms ==
    LET f == ProbeOf(v)
    IN  (ComparisonCase /\ f.v.ptr)
        => IF f.v.kind = "string" THEN out = Fail(ErrInvalidTag)
           ELSE IF f.v.kind = "struct" THEN out = Fail(ErrInvalidTag)
           ELSE out = Ok(Around(v, IF f.v.nil THEN <<>>
                                   ELSE ConditionName(f) \o ComparisonText(f.tag[1].k)
                                        \o Literal(Indirect(f.v))))

\* a pointer to a string under equalsOperator
C14_Witness ==
    /\ op = "MarshalWhereClause"
    /\ v = StructV(<<CondDate(EqualsOperator, PtrTo(StringV(<<"a">>)))>>)
    /\ out = Fail(ErrInvalidTag)

\* a nil *string is refused too
C14_WitnessNil ==
    /\ op = "MarshalWhereClause"
    /\ v = StructV(<<CondEquals(<<"SERVER">>), CondDate(LessThanOperator, NilPtr(StringV(<<>>)))>>)
    /\ out = Fail(ErrInvalidTag)

(***************************************************************************)
(* C15  Zero values under the comparison operators.                        *)
(***************************************************************************)
\* C15: under a comparison operator a non-pointer empty string produces no
\* condition and no joiner, while every other non-pointer scalar is emitted,
\* the integer 0 as <field> <op> 0 and the boolean false as <field> <op> false
\* included.
C15_ZeroValues ==
    LET f == ProbeOf(v)
    IN  (ComparisonCase /\ f.v \in ScalarValues)
        => out = Ok(Around(v, IF f.v.kind = "string"
                              THEN (IF f.v.s = <<>> THEN <<>>
                                    ELSE ConditionName(f) \o ComparisonText(f.tag[1].k)
                                         \o Quoted(Escaped(f.v.s, FALSE)))
                              ELSE ConditionName(f) \o ComparisonText(f.tag[1].k)
                                   \o Literal(f.v)))

\* the empty string after a rendered condition: no condition, no joiner
C15_Witness ==
    /\ op = "MarshalWhereClause"
    /\ v = StructV(<<CondEquals(<<"SERVER">>), CondDate(NotEqualsOperator, StringV(<<>>))>>)
    /\ out = Ok(<<"Asset_Type__c", " = ", "'", "SERVER", "'">>)

\* the integer 0 is emitted
C15_WitnessZero ==
    /\ op = "MarshalWhereClause"
    /\ v = StructV(<<CondEquals(<<"SERVER">>), CondDate(GreaterThanOperator, IntV("uint8", 0))>>)
    /\ out = Ok(<<"Asset_Type__c", " = ", "'", "SERVER", "'", " AND ", "CreatedDate", " > ", "0">>)

\* the boolean false is emitted
C15_WitnessFalse ==
    /\ op = "MarshalWhereClause"
    /\ v = StructV(<<CondDate(EqualsOperator, BoolV(FALSE))>>)
    /\ out = Ok(<<"CreatedDate", " = ", "false">>)

(***************************************************************************)
(* C16  Relative-date operators.                                           *)
(***************************************************************************)
RelativeDateKeys ==
    {GreaterNextNDaysOperator, GreaterOrEqualNextNDaysOperator, EqualsNextNDaysOperator,
     LessNextNDaysOperator, LessOrEqualNextNDaysOperator,
     GreaterLastNDaysOperator, GreaterOrEqualLastNDaysOperator, EqualsLastNDaysOperator,
     LessLastNDaysOperator, LessOrEqualLastNDaysOperator}

\* a criteria of TypedCriteria whose condition under test is a relative-date
\* operator on a value that is no integer and no pointer to one
NonIntegerDateCase ==
    /\ op = "MarshalWhereClause"
    /\ v \in TypedCriteria
    /\ ProbeOf(v).tag[1].k \in RelativeDateKeys
    /\ ProbeOf(v).v.kind \notin IntKinds

\* C16: each of the ten relative-date operators accepts only an integer or a
\* pointer to one: a value of any other kind yields ErrInvalidTag and no text.
C16_IntegersOnly == NonIntegerDateCase => out = Fail(ErrInvalidTag)

\* what the code does: nine of the ten operators refuse such a value
C16_NineOperators ==
    (NonIntegerDateCase /\ ProbeOf(v).tag[1].k # LessOrEqualNextNDaysOperator)
    => out = Fail(ErrInvalidTag)

\* what the code does: lessOrEqualNextNDaysOperator renders a string
C16_StringRendered ==
    (op = "MarshalWhereClause"
        /\ v = StructV(<<CondDate(LessOrEqualNextNDaysOperator, StringV(<<"a">>))>>))
    => out = Ok(<<"CreatedDate", " <= NEXT_N_DAYS:", "'", "a", "'">>)

(***************************************************************************)
(* C17  The three states of nullOperator.                                  *)
(***************************************************************************)
\* a criteria of TypedCriteria whose condition under test is a nullOperator
NullCase == op = "MarshalWhereClause" /\ v \in TypedCriteria
            /\ ProbeOf(v).tag[1].k = NullOperator

\* C17: under nullOperator a nil *bool produces no condition and no error,
\* true (bool or non-nil *bool) renders f = null and false (bool or non-nil
\* *bool) renders f != null; a bool left at its zero value emits f != null.
C17_NullStates ==
    LET f == ProbeOf(v)
    IN  (NullCase /\ f.v.kind = "bool")
        => out = Ok(Around(v, IF f.v.ptr /\ f.v.nil THEN <<>>
                              ELSE IF f.v.b THEN ConditionName(f) \o <<" = ", "null">>
                              ELSE ConditionName(f) \o <<" != ", "null">>))

\* a bool left at its zero value
C17_Witness ==
    /\ op = "MarshalWhereClause"
    /\ v = StructV(<<CondDate(NullOperator, BoolV(FALSE)), CondEquals(<<"SERVER">>)>>)
    /\ out = Ok(<<"CreatedDate", " != ", "null", " AND ", "Asset_Type__c", " = ", "'", "SERVER", "'">>)

\* a pointer to true
C17_WitnessTrue ==
    /\ op = "MarshalWhereClause"
    /\ v = StructV(<<CondDate(NullOperator, PtrTo(BoolV(TRUE)))>>)
    /\ out = Ok(<<"CreatedDate", " = ", "null">>)

\* a nil *bool
C17_WitnessNil ==
    /\ op = "MarshalWhereClause"
    /\ v = StructV(<<CondDate(NullOperator, NilPtr(BoolV(FALSE)))>>)
    /\ out = Ok(<<>>)

(***************************************************************************)
(* C18  nullOperator on a field that is no bool.                           *)
(***************************************************************************)
\* C18: nullOperator on a field whose type is neither bool nor *bool yields
\* ErrInvalidTag for every value of the field, nil pointers included.
C18_NonBool == (NullCase /\ ProbeOf(v).v.kind # "bool") => out = Fail(ErrInvalidTag)

\* what the code does: every value but a nil pointer is refused
C18_NonNilNonBool ==
    (NullCase /\ ProbeOf(v).v.kind # "bool" /\ ~ProbeOf(v).v.nil) => out = Fail(ErrInvalidTag)

\* what the code does: a nil pointer of any type is skipped without error
C18_NilSkipped ==
    (NullCase /\ ProbeOf(v).v.kind # "bool" /\ ProbeOf(v).v.nil) => out = Ok(Around(v, <<>>))

(***************************************************************************)
(* C19  The subquery tag on a member that is no struct.                    *)
(***************************************************************************)
\* a criteria of TypedCriteria whose condition under test is a subquery on a
\* member whose type is no struct (a scalar, a slice, or a pointer to one)
SubqueryNonStructCase ==
    /\ op = "MarshalWhereClause"
    /\ v \in TypedCriteria
    /\ ProbeOf(v).tag[1].k = Subquery
    /\ ProbeOf(v).v.kind \notin {"struct", "time.Time"}

\* C19: the subquery tag on a member whose type is no struct makes
\* MarshalWhereClause and Marshal return ErrInvalidTag, for every value.
C19_SubqueryNonStruct ==
    SubqueryNonStructCase
    => /\ out = Fail(ErrInvalidTag)
       /\ Marshal(QueryOver(v)) = Fail(ErrInvalidTag)

\* what the code does: a member that is no pointer is refused
C19_NonPointerRefused ==
    (SubqueryNonStructCase /\ ~ProbeOf(v).v.ptr)
    => /\ out = Fail(ErrInvalidTag)
       /\ Marshal(QueryOver(v)) = Fail(ErrInvalidTag)

\* what the code does: a nil pointer is skipped without error, and reflect
\* panics on the pointee of a non-nil pointer
C19_PointerAccepted ==
    (SubqueryNonStructCase /\ ProbeOf(v).v.ptr)
    => IF ProbeOf(v).v.nil
       THEN out = Ok(Around(v, <<>>)) /\ Marshal(QueryOver(v)).err = NoErr
       ELSE out = Fail(Panic)

(***************************************************************************)
(* C20  The order-by text.                                                 *)
(***************************************************************************)
RECURSIVE IsKey(_, _)
\* key names a selectColumn field of fields, or with <parent>.<field> a
\* selectColumn field of a nested struct
IsKey(fields, key) ==
    /\ key # <<>>
    /\ \E n \in 1..Len(fields) :
          /\ fields[n].name = key[1]
          /\ fields[n].tag # <<>> /\ fields[n].tag[1].k = "selectColumn"
          /\ \/ Len(key) = 1
             \/ /\ Len(key) >= 3 /\ key[2] = "."
                /\ ~fields[n].v.ptr /\ fields[n].v.kind = "struct"
                /\ IsKey(fields[n].v.fields, SubSeq(key, 3, Len(key)))

RECURSIVE ResolvedName(_, _)
\* the `.`-join of the resolved names on the path of the key
ResolvedName(fields, key) ==
    LET f == fields[CHOOSE n \in 1..Len(fields) : fields[n].name = key[1]]
    IN  IF Len(key) = 1 THEN ConditionName(f)
        ELSE ConditionName(f) \o <<".">> \o ResolvedName(f.v.fields, SubSeq(key, 3, Len(key)))

\* the text C20 expects for the order list x over the shape
OrderByText(x, shape) ==
    JoinWith([n \in 1..Len(x.items) |->
                 ResolvedName(shape.fields, x.items[n].s)
                 \o (IF x.items[n].b THEN <<" DESC">> ELSE <<" ASC">>)], <<",">>)

\* a call of MarshalOrderByClause on a list whose every Field is a key
KeysOnlyCase ==
    /\ op = "MarshalOrderByClause"
    /\ v \in OrderLists
    /\ s \in OrderShapes
    /\ \A n \in 1..Len(v.items) : IsKey(s.fields, v.items[n].s)

\* C20 as stated: for a list whose every Field is a key of the mapping of the
\* shape, MarshalOrderByClause returns the `,`-join in list order of
\* <mapped name> ASC or DESC, never sorted or de-duplicated, and the empty
\* string for the empty list.
C20_OrderTextAsStated == KeysOnlyCase => out = Ok(OrderByText(v, s))

\* C20: the same, for a shape that declares at least one selectColumn field;
\* over a shape that declares none MarshalOrderByClause returns
\* ErrInvalidSelectColumnOrderByClause, for the empty list as well.
C20_OrderText ==
    KeysOnlyCase
    => IF \E n \in 1..Len(s.fields) : IsKey(s.fields, <<s.fields[n].name>>)
       THEN out = Ok(OrderByText(v, s))
       ELSE out = Fail(ErrInvalidSelectColumnOrderByClause)

\* a field named twice, in both directions, after a nested one
C20_Witness ==
    /\ op = "MarshalOrderByClause"
    /\ s = NestedStruct
    /\ v = OrderList(<<OrderV(<<"NonNestedStruct", ".", "SomeValue">>, TRUE),
                       OrderV(<<"ID">>, FALSE), OrderV(<<"ID">>, TRUE)>>)
    /\ out = Ok(<<"NonNestedStruct__r", ".", "SomeValue__c", " DESC", ",",
                  "Id", " ASC", ",", "Id", " DESC">>)

\* a date-time column and a path two levels deep under declared names
C20_WitnessDeep ==
    /\ op = "MarshalOrderByClause"
    /\ s = DeepStruct
    /\ v = OrderList(<<OrderV(<<"Owner", ".", "NonNestedStruct", ".", "Name">>, FALSE),
                       OrderV(<<"LastRestart">>, TRUE)>>)
    /\ out = Ok(<<"Owner", ".", "NonNestedStruct__r", ".", "Name", " ASC", ",",
                  "Last_Restart__c", " DESC">>)

\* the empty list over a shape with columns
C20_WitnessEmpty ==
    /\ op = "MarshalOrderByClause"
    /\ s = NestedStruct
    /\ v = OrderList(<<>>)
    /\ out = Ok(<<>>)

(***************************************************************************)
(* C21  The errors of MarshalOrderByClause and their precedence.           *)
(***************************************************************************)
\* the type of x is []Order or *[]Order
OrderListType(x) == x.kind = "slice" /\ x.elem = "Order"

\* the type of x is a struct type or a pointer to one
StructType(x) == x.kind = "struct"

\* x is a nil pointer, or the nil interface
NilArgument(x) == (x.ptr /\ x.nil) \/ x.kind = "nil"

\* the shape declares a selectColumn field
DeclaresColumn(shape) ==
    \E n \in 1..Len(shape.fields) : IsKey(shape.fields, <<shape.fields[n].name>>)

\* the entry is blank or names no key of the mapping of the shape
DefectiveEntry(shape, entry) == IsBlank(entry.s) \/ ~IsKey(shape.fields, entry.s)

\* C21 as stated: an order argument that is no list of Order entries gives
\* ErrInvalidOrderByClause whatever the shape; otherwise a shape that is no
\* struct or declares no selectColumn field gives
\* ErrInvalidSelectColumnOrderByClause; otherwise a blank or unknown Field
\* gives ErrInvalidOrderByClause.
C21_OrderErrors ==
    (op = "MarshalOrderByClause" /\ v \in OrderArguments /\ s \in DefectShapes)
    => IF ~OrderListType(v) THEN out = Fail(ErrInvalidOrderByClause)
       ELSE IF NilArgument(v) THEN TRUE
       ELSE IF ~StructType(s) \/ (~NilArgument(s) /\ ~DeclaresColumn(s))
       THEN out = Fail(ErrInvalidSelectColumnOrderByClause)
       ELSE IF NilArgument(s) THEN TRUE
       ELSE IF \E n \in 1..Len(v.items) : DefectiveEntry(s, v.items[n])
       THEN out = Fail(ErrInvalidOrderByClause)
       ELSE out.err = NoErr

\* what the code returns: a nil pointer is answered with ErrNilValue and the
\* nil interface with a panic, the order argument before the shape; among
\* non-nil arguments the precedence is the stated one
C21_OrderErrorsNonNil ==
    (op = "MarshalOrderByClause" /\ v \in OrderArguments /\ s \in DefectShapes)
    => IF v.kind = "nil" THEN out = Fail(Panic)
       ELSE IF NilArgument(v) THEN out = Fail(ErrNilValue)
       ELSE IF ~OrderListType(v) THEN out = Fail(ErrInvalidOrderByClause)
       ELSE IF s.kind = "nil" THEN out = Fail(Panic)
       ELSE IF NilArgument(s) THEN out = Fail(ErrNilValue)
       ELSE IF ~StructType(s) \/ ~DeclaresColumn(s)
       THEN out = Fail(ErrInvalidSelectColumnOrderByClause)
       ELSE IF \E n \in 1..Len(v.items) : DefectiveEntry(s, v.items[n])
       THEN out = Fail(ErrInvalidOrderByClause)
       ELSE out.err = NoErr

\* the nil interface as order argument ends in a panic
C21_NilPanics ==
    /\ op = "MarshalOrderByClause"
    /\ v = Val("nil") /\ s = NestedStruct
    /\ out = Fail(Panic)

\* a nil pointer that is no list of Order is answered with ErrNilValue
C21_NilPointer ==
    /\ op = "MarshalOrderByClause"
    /\ v = NilPtr(IntV("int", 0)) /\ s = NestedStruct
    /\ out = Fail(ErrNilValue)

\* a wrongly typed order argument is reported before a defective shape, and
\* a defective shape before a defective entry
C21_Precedence ==
    /\ op = "MarshalOrderByClause"
    /\ \/ v = SliceV("string", <<StringV(<<"test">>)>>) /\ s = StringV(<<"dummy">>)
          /\ out = Fail(ErrInvalidOrderByClause)
       \/ v = OrderList(<<OrderV(<<" ">>, FALSE)>>) /\ s = StructV(<<NonSoqlMember>>)
          /\ out = Fail(ErrInvalidSelectColumnOrderByClause)

(***************************************************************************)
(* C22  The node without annotated fields.                                 *)
(***************************************************************************)
\* the relationship name handed to the child: the prefix and the field name
ChildRelation == (IF rel # <<>> THEN rel \o <<".">> ELSE <<>>) \o <<"Application_Versions__r">>

\* v is the shape whose only field is a child relationship to a bare node
BareChildCase ==
    /\ op = "MarshalSelectClause"
    /\ \E q \in BareNodes : v = StructV(<<ChildField(q)>>)

\* C22, at top level: Marshal of a node none of whose fields is annotated
\* returns the empty string and no error.
C22_BareTopLevel ==
    (op = "Marshal" /\ \E q \in BareNodes : v \in {q, PtrTo(q)}) => out = Ok(<<>>)

\* C22, as a child: the select clause of a shape whose only field is a child
\* relationship to such a node is the text the node compiles to, the empty
\* string, and there is no error.
C22_BareChild == BareChildCase => out = Ok(<<>>)

\* what the code returns for the child: the empty string for a struct
\* without fields, a pair of parentheses for one with un-annotated fields
C22_BareChildBraces ==
    BareChildCase
    => out = IF v.fields[1].v.fields = <<>> THEN Ok(<<>>) ELSE Ok(<<"(", ")">>)

\* the child with one un-annotated field compiles to ()
C22_Braces ==
    /\ op = "MarshalSelectClause" /\ rel = <<>>
    /\ v = StructV(<<ChildField(StructV(<<NonSoqlMember>>))>>)
    /\ out = Ok(<<"(", ")">>)

\* and the query over the shape carries it between the columns
C22_BracesInQuery ==
    /\ op = "Marshal"
    /\ v = StructV(<<Field("SelectClause", Tag1(SelectClause),
                           ParentStruct(StructV(<<NonSoqlMember>>)))>>)
    /\ out = Ok(<<"SELECT ", "Id", ",", "(", ")", ",", "Name__c", " FROM ", "SelectClause">>)

(***************************************************************************)
(* C23  Repeated calls.                                                    *)
(* The operator table and the two replacers are definitions of this        *)
(* module: marshaller.go assigns to none of them after their declaration   *)
(* (lines 149, 236, 244) and only reads them (lines 277, 327, 393, 714).   *)
(***************************************************************************)
\* the result of the entry point on the arguments
Returned(entry, x, r, shape) ==
    CASE entry = "Marshal" -> Marshal(x)
      [] entry = "MarshalSelectClause" -> MarshalSelectClause(x, r)
      [] entry = "MarshalWhereClause" -> MarshalWhereClause(x)
      [] entry = "MarshalOrderByClause" -> MarshalOrderByClause(x, shape)
      [] OTHER -> Ok(<<>>)

C23_WitnessError ==
    /\ prev.kept /\ op = "Marshal" /\ prev.op = "Marshal"
    /\ prev.v = v /\ prev.out = out
    /\ out.err \notin {NoErr, Panic}

\* the order text after a call of another entry point on the same arguments
C23_WitnessOther ==
    /\ prev.kept /\ op = "MarshalOrderByClause" /\ prev.op = "MarshalSelectClause"
    /\ v = OrdersValid /\ s = NestedStruct
    /\ out.err = NoErr /\ out.text # <<>>

(***************************************************************************)
(* C24  Joiners of a filter-criteria node and of its subgroups.            *)
(***************************************************************************)
\* the fragment of a condition field of the criteria above
LeafText(f) ==
    LET operator == CASE f.tag[1].k = "equalsOperator" -> <<" = ">>
                      [] f.tag[1].k = "notEqualsOperator" -> <<" != ">>
                      [] f.tag[1].k = "lessThanOrEqualsToOperator" -> <<" <= ">>
                      [] OTHER -> <<>>
    IN  IF f.v.ptr /\ f.v.nil THEN <<>>
        ELSE IF f.v.kind = "string"
        THEN (IF f.v.s = <<>> THEN <<>> ELSE ConditionName(f) \o operator \o Quoted(f.v.s))
        ELSE ConditionName(f) \o operator \o <<ToString(f.v.i)>>

\* the joiner a subgroup field asks for: OR when its joiner parameter spells
\* `or`, AND otherwise
OwnJoiner(f) == IF ToLower(ParamOf(f.tag, "joiner")) = <<"o", "r">> THEN <<" OR ">> ELSE <<" AND ">>

IsSubgroup(f) == f.tag # <<>> /\ f.tag[1].k = "subquery"

IsNilSubgroup(f) == IsSubgroup(f) /\ f.v.ptr /\ f.v.nil

RECURSIVE GroupText(_, _)
\* the non-empty fragments of the fields, in declaration order, joined by
\* the joiner of the node; the fragment of a subgroup is its own text, under
\* its own joiner, between parentheses
GroupText(fields, joiner) ==
    LET all == [n \in 1..Len(fields) |->
                   IF IsNilSubgroup(fields[n]) THEN <<>>
                   ELSE IF IsSubgroup(fields[n])
                   THEN <<"(">> \o GroupText(fields[n].v.fields, OwnJoiner(fields[n])) \o <<")">>
                   ELSE LeafText(fields[n])]
    IN  JoinWith(SelectSeq(all, LAMBDA text : text # <<>>), joiner)

RECURSIVE ValidJoiners(_)
\* every subgroup that is compiled carries no joiner parameter or one that
\* spells `and` or `or`
ValidJoiners(fields) ==
    \A n \in 1..Len(fields) :
        (IsSubgroup(fields[n]) /\ ~IsNilSubgroup(fields[n]))
        => /\ ToLower(ParamOf(fields[n].tag, "joiner")) \in {<<>>, <<"o", "r">>, <<"a", "n", "d">>}
           /\ ValidJoiners(fields[n].v.fields)

\* C24: the fragments of a node are joined by the joiner of that node only,
\* a subgroup's joiner governing the joins inside the subgroup alone and
\* defaulting to AND whatever the joiner of its parent; k fragments are
\* separated by k-1 joiners.  Through MarshalWhereClause the node's joiner
\* is AND, through Marshal it is the joiner of the where-root.
C24_OwnJoiner ==
    /\ (op = "MarshalWhereClause" /\ v \in GroupCriteria /\ ValidJoiners(v.fields))
       => out = Ok(GroupText(v.fields, <<" AND ">>))
    /\ (op = "Marshal" /\ v \in GroupQueries /\ ValidJoiners(v.fields[2].v.fields))
       => out = Ok(HostQueryText(GroupText(v.fields[2].v.fields, OwnJoiner(v.fields[2]))))

\* an OR subgroup between two siblings of an AND node
C24_Witness ==
    /\ op = "MarshalWhereClause"
    /\ v = StructV(<<CondEquals(<<"a">>),
                     Sub("Position", <<"o", "r">>,
                         StructV(<<CondEquals(<<"x">>), CondNotEquals(<<"y">>)>>)),
                     CondNotEquals(<<"b">>)>>)
    /\ out = Ok(<<"Asset_Type__c", " = ", "'", "a", "'", " AND ",
                  "(", "Asset_Type__c", " = ", "'", "x", "'", " OR ",
                       "Status__c", " != ", "'", "y", "'", ")",
                  " AND ", "Status__c", " != ", "'", "b", "'">>)

\* a subgroup without joiner parameter inside a where-root joined by OR, with
\* an absent condition between its fragments
C24_WitnessDefault ==
    /\ op = "Marshal"
    /\ v = StructV(<<SelHost, RootWhere("WhereClause", <<"o", "r">>,
               StructV(<<Sub("Position", <<"-">>,
                             StructV(<<CondEquals(<<"x">>), CondRelease(<<>>),
                                       CondNotEquals(<<"y">>)>>)),
                         CondRelease(<<>>),
                         CondEquals(<<"a">>)>>))>>)
    /\ out = Ok(HostQueryText(<<"(", "Asset_Type__c", " = ", "'", "x", "'", " AND ",
                                     "Status__c", " != ", "'", "y", "'", ")",
                                " OR ", "Asset_Type__c", " = ", "'", "a", "'">>))

(***************************************************************************)
(* C25  Subgroups: the nil pointer, the qualifier, the parentheses.        *)
(***************************************************************************)
\* the criteria without its subgroup fields that hold a nil pointer
WithoutNil(c) == StructV(SelectSeq(c.fields, LAMBDA f : ~IsNilSubgroup(f)))

\* the child query of a shape of GroupShapes and its filter criteria
GroupChild(shape) == shape.fields[2].v

GroupFilter(shape) == GroupChild(shape).fields[2].v

\* the sub-query of the child relationship with the filter text w
GroupChildText(w) ==
    <<"Id", ",", "(", "SELECT ", "SM_Application_Versions__c", ".", "Version__c",
      " FROM ", "Application_Versions__r">>
    \o (IF w # <<>> THEN <<" WHERE ">> \o w ELSE <<>>)
    \o <<")", ",", "Name__c">>

\* C25: a subgroup field holding a nil pointer changes nothing, the result
\* (text and error) being that of the criteria without the field, whatever
\* its joiner parameter; the fragment of every other subgroup is the text of
\* the subgroup between one pair of parentheses, and in the filter of a
\* child relationship its columns carry the table qualifier of its parent.
C25_Subgroups ==
    /\ (op = "MarshalWhereClause" /\ v \in GroupCriteria)
       => out = MarshalWhereClause(WithoutNil(v))
    /\ (op = "MarshalWhereClause" /\ v \in GroupCriteria /\ Len(v.fields) = 1
          /\ IsSubgroup(v.fields[1]) /\ ~IsNilSubgroup(v.fields[1]) /\ ValidJoiners(v.fields))
       => out = Ok(<<"(">> \o GroupText(v.fields[1].v.fields, OwnJoiner(v.fields[1])) \o <<")">>)
    /\ (op = "MarshalSelectClause" /\ v \in GroupShapes /\ ValidJoiners(GroupFilter(v).fields))
       => out = Ok(GroupChildText(Qualify(GroupText(GroupFilter(v).fields, <<" AND ">>),
                                          <<"SM_Application_Versions__c">>)))

\* a nil subgroup with a joiner that is no joiner, between two conditions
C25_Witness ==
    /\ op = "MarshalWhereClause"
    /\ v = StructV(<<CondEquals(<<"a">>), Sub("Other", <<"x", "o", "r">>, NilPtr(InnerGroup)),
                     CondNotEquals(<<"b">>)>>)
    /\ out = Ok(<<"Asset_Type__c", " = ", "'", "a", "'", " AND ",
                  "Status__c", " != ", "'", "b", "'">>)

\* a subgroup behind a pointer in the filter of a child relationship
C25_WitnessQualified ==
    LET T == "SM_Application_Versions__c"
    IN  /\ op = "MarshalSelectClause"
        /\ v \in GroupShapes
        /\ GroupFilter(v) = StructV(<<CondEquals(<<"a">>),
               Sub("Position", <<"o", "r">>,
                   PtrTo(StructV(<<CondEquals(<<"x">>), CondNotEquals(<<"y">>)>>)))>>)
        /\ out = Ok(GroupChildText(<<T, ".", "Asset_Type__c", " = ", "'", "a", "'", " AND ",
                                     "(", T, ".", "Asset_Type__c", " = ", "'", "x", "'", " OR ",
                                     T, ".", "Status__c", " != ", "'", "y", "'", ")">>))

(***************************************************************************)
(* C26  No value ends its string literal.                                  *)
(***************************************************************************)
\* the number of backslashes in a row immediately before position n of text
BackslashRun(text, n) ==
    CHOOSE k \in 0..(n - 1) :
        /\ \A m \in (n - k)..(n - 1) : text[m] = "\\"
        /\ (k = n - 1 \/ text[n - k - 1] # "\\")

\* every single quote of the body of a literal follows an odd number of
\* backslashes, and the body ends in an even number of them
ClosedLiteral(body) ==
    /\ \A n \in 1..Len(body) : body[n] = "'" => BackslashRun(body, n) % 2 = 1
    /\ BackslashRun(body, Len(body) + 1) % 2 = 0

\* what stands between the delimiting quotes (between the two % of a like
\* pattern) of the literal of the first value of the condition field f, in
\* the text its one-field criteria compiles to
LiteralBody(f, text) ==
    LET key == f.tag[1].k
        name == Len(ConditionName(f))
    IN  CASE key \in {"equalsOperator", "notEqualsOperator", "lessThanOrEqualsToOperator"}
               -> SubSeq(text, name + 3, Len(text) - 1)
          [] key = "inOperator" -> SubSeq(text, name + 4, Len(text) - 2)
          [] key = "notInOperator" -> SubSeq(text, name + 4, Len(text) - 6)
          [] key = "likeOperator" -> SubSeq(text, name + 4, Len(text) - 2)
          [] key = "notLikeOperator" -> SubSeq(text, name + 6, Len(text) - 3)

\* C26: in the literal a comparison, in / not-in or like / not-like builder
\* emits for a string, every single quote between the delimiters follows an
\* odd number of backslashes and the closing delimiter (the trailing % of a
\* like pattern) an even number.
C26_ClosedLiterals ==
    (op = "MarshalWhereClause" /\ v \in StringCriteria /\ out.text # <<>>)
    => /\ out.err = NoErr
       /\ ClosedLiteral(LiteralBody(v.fields[1], out.text))

\* every criteria with a non-empty string does emit a literal
C26_Emitted ==
    (op = "MarshalWhereClause" /\ v \in StringCriteria
        /\ ~(v.fields[1].v.kind = "string" /\ v.fields[1].v.s = <<>>))
    => out.err = NoErr /\ out.text # <<>>

\* a value that ends in a backslash, after a quote
C26_Witness ==
    /\ op = "MarshalWhereClause"
    /\ v = StructV(<<CondLike(<< <<"'", "\\">> >>)>>)
    /\ out = Ok(<<"Host_Name__c", " LIKE ", "'", "%", "\\", "'", "\\", "\\", "%", "'">>)
    /\ LiteralBody(v.fields[1], out.text) = <<"\\", "'", "\\", "\\">>

\* a backslash before a quote under not-in
C26_WitnessNotIn ==
    /\ op = "MarshalWhereClause"
    /\ v = StructV(<<CondNotIn(<< <<"\\", "'">>, <<"a">> >>)>>)
    /\ LiteralBody(v.fields[1], out.text) = <<"\\", "\\", "\\", "'">>

(***************************************************************************)
(* C27  A child relationship inside a parent relationship.                 *)
(***************************************************************************)
\* v is the shape holding the child query description q inside its parent
\* relationship Owner, and q compiles
NestedChildCase ==
    /\ op = "MarshalSelectClause"
    /\ Len(v.fields) = 2 /\ Len(v.fields[2].v.fields) = 2
    /\ v.fields[2].v.fields[2].v \in ChildQueries
    /\ v = OwnerStruct(v.fields[2].v.fields[2].v)
    /\ Compiles(v.fields[2].v.fields[2].v)

\* the select clause of the shape when its nested child compiles as q does
NestedChildText(q) ==
    LET P == IF rel = <<>> THEN <<>> ELSE rel \o <<".">>
    IN  P \o <<"Id", ",">> \o P \o <<"Owner__r", ".", "Name__c", ",">>
        \o ChildText(q, P \o <<"Owner__r", ".", "Application_Versions__r">>)

\* C27: the sub-query of a child relationship declared inside a nested
\* parent relationship carries the where conditions, order entries, limit
\* and offset held in the input, as it would were the child declared
\* directly in the top-level shape.
C27_NestedChildValues ==
    NestedChildCase => out = Ok(NestedChildText(v.fields[2].v.fields[2].v))

\* what the code returns: the sub-query of the child with every value at
\* the zero value of its type, or the error of that child
C27_NestedChildZero ==
    LET z == ZeroOf(v.fields[2].v.fields[2].v)
    IN  NestedChildCase
        => out = IF Marshal(z).err = NoErr THEN Ok(NestedChildText(z)) ELSE Fail(Marshal(z).err)

\* a populated filter and a limit of the nested child are gone
C27_ValuesLost ==
    /\ op = "MarshalSelectClause" /\ rel = <<>>
    /\ v = OwnerStruct(StructV(<<SelChild(ChildStruct),
                                 RootWhere("WhereClause", <<"-">>, CritSingle),
                                 RootLimit("Limit", PtrTo(IntV("int", 1)))>>))
    /\ out = Ok(<<"Id", ",", "Owner__r", ".", "Name__c", ",",
                  "(", "SELECT ", "SM_Application_Versions__c", ".", "Version__c",
                  " FROM ", "Owner__r", ".", "Application_Versions__r", ")">>)

\* while the same child declared directly in the shape keeps them
C27_ValuesKept ==
    /\ op = "MarshalSelectClause" /\ rel = <<>>
    /\ v = ParentStruct(StructV(<<SelChild(ChildStruct),
                                  RootWhere("WhereClause", <<"-">>, CritSingle),
                                  RootLimit("Limit", PtrTo(IntV("int", 1)))>>))
    /\ out = Ok(<<"Id", ",",
                  "(", "SELECT ", "SM_Application_Versions__c", ".", "Version__c",
                  " FROM ", "Application_Versions__r",
                  " WHERE ", "SM_Application_Versions__c", ".", "Status__c", " != ",
                  "'", "Active", "'", " LIMIT ", "1", ")", ",", "Name__c">>)

(***************************************************************************)
(* C28  The subgroup without a populated condition.                        *)
(***************************************************************************)
\* the text holds an opening parenthesis directly followed by a closing one
HasEmptyGroup(text) == \E n \in 1..(Len(text) - 1) : text[n] = "(" /\ text[n + 1] = ")"

RECURSIVE Populated(_)
\* some condition of the fields, or of a subgroup that is compiled, is rendered
Populated(fields) ==
    \E n \in 1..Len(fields) :
        IF IsSubgroup(fields[n])
        THEN ~IsNilSubgroup(fields[n]) /\ Populated(fields[n].v.fields)
        ELSE LeafText(fields[n]) # <<>>

\* C28: the where text holds no empty group (), MarshalWhereClause returns
\* the empty string when no condition of the criteria tree is populated, and
\* Marshal then writes no WHERE.
C28_NoEmptyGroup ==
    /\ (op = "MarshalWhereClause" /\ v \in GroupCriteria /\ ValidJoiners(v.fields))
       => /\ out.err = NoErr
          /\ ~HasEmptyGroup(out.text)
          /\ ~Populated(v.fields) => out.text = <<>>
    /\ (op = "Marshal" /\ v \in GroupQueries /\ ValidJoiners(v.fields[2].v.fields))
       => /\ out.err = NoErr
          /\ ~HasEmptyGroup(out.text)
          /\ ~Populated(v.fields[2].v.fields) => out = Ok(HostQueryText(<<>>))

\* what holds of the code: without a subgroup that is compiled and holds no
\* populated condition the text has no empty group, and it is empty when
\* nothing is populated
C28_PopulatedGroups ==
    (op = "MarshalWhereClause" /\ v \in GroupCriteria /\ ValidJoiners(v.fields)
        /\ \A n \in 1..Len(v.fields) :
              (IsSubgroup(v.fields[n]) /\ ~IsNilSubgroup(v.fields[n]))
              => Populated(v.fields[n].v.fields))
    => /\ out.err = NoErr
       /\ ~HasEmptyGroup(out.text)
       /\ ~Populated(v.fields) => out.text = <<>>

\* a subgroup of absent conditions next to a condition: an empty group, joined
C28_EmptyGroupWritten ==
    /\ op = "MarshalWhereClause"
    /\ v = StructV(<<CondEquals(<<"a">>),
                     Sub("Position", <<"-">>,
                         StructV(<<CondRelease(<<>>), CondNull(NilPtr(BoolV(FALSE)))>>))>>)
    /\ out = Ok(<<"Asset_Type__c", " = ", "'", "a", "'", " AND ", "(", ")">>)

\* nothing populated anywhere, and Marshal writes WHERE ()
C28_WhereWritten ==
    /\ op = "Marshal"
    /\ v = StructV(<<SelHost, RootWhere("WhereClause", <<"o", "r">>,
                         StructV(<<Sub("Position", <<"-">>, StructV(<<>>))>>))>>)
    /\ out = Ok(HostQueryText(<<"(", ")">>))

(***************************************************************************)
(* C29  Order-by columns and select columns.                               *)
(***************************************************************************)
\* col is one of the comma-separated entries of text
IsEntry(text, col) ==
    \E i \in 1..Len(text) :
        LET j == i + Len(col) - 1
        IN  /\ col # <<>> /\ j <= Len(text)
            /\ SubSeq(text, i, j) = col
            /\ (i = 1 \/ text[i - 1] = ",")
            /\ (j = Len(text) \/ text[j + 1] = ",")

RECURSIVE KeyField(_, _)
\* the field a key of the mapping names
KeyField(fields, key) ==
    LET f == fields[CHOOSE n \in 1..Len(fields) : fields[n].name = key[1]]
    IN  IF Len(key) = 1 THEN f ELSE KeyField(f.v.fields, SubSeq(key, 3, Len(key)))

\* an order list of one entry has been resolved against the shape
ResolvedCase ==
    /\ op = "MarshalOrderByClause"
    /\ v \in ColumnOrders /\ s \in ColumnShapes
    /\ out.err = NoErr

\* the column the entry was resolved to: the text without ASC
ResolvedColumn == SubSeq(out.text, 1, Len(out.text) - 1)

\* C29: the column an order entry resolves to is one of the entries of the
\* select clause compiled from the same shape.
C29_OrderedIsSelected ==
    ResolvedCase
    => /\ MarshalSelectClause(s, <<>>).err = NoErr
       /\ IsEntry(MarshalSelectClause(s, <<>>).text, ResolvedColumn)

\* what holds of the code: the names of fields that are no structs are
\* entries of the select clause
C29_ScalarColumns ==
    (ResolvedCase /\ Kind(KeyField(s.fields, v.items[1].s).v) # "struct")
    => /\ MarshalSelectClause(s, <<>>).err = NoErr
       /\ IsEntry(MarshalSelectClause(s, <<>>).text, ResolvedColumn)

\* and the name of a field that is a struct never is
C29_StructColumns ==
    (ResolvedCase /\ Kind(KeyField(s.fields, v.items[1].s).v) = "struct")
    => ~IsEntry(MarshalSelectClause(s, <<>>).text, ResolvedColumn)

\* the order by the parent relationship itself, which the select clause
\* only holds the columns of
C29_ParentOrdered ==
    /\ op = "MarshalOrderByClause"
    /\ s = NestedStruct
    /\ v = OrderList(<<OrderV(<<"NonNestedStruct">>, FALSE)>>)
    /\ out = Ok(<<"NonNestedStruct__r", " ASC">>)
    /\ MarshalSelectClause(s, <<>>) =
          Ok(<<"Id", ",", "Name__c", ",", "NonNestedStruct__r", ".", "Name", ",",
               "NonNestedStruct__r", ".", "SomeValue__c">>)

\* the order by a column of a parent relationship, which the select clause holds
C29_NestedOrdered ==
    /\ op = "MarshalOrderByClause"
    /\ s = NestedStruct
    /\ v = OrderList(<<OrderV(<<"NonNestedStruct", ".", "SomeValue">>, FALSE)>>)
    /\ out = Ok(<<"NonNestedStruct__r", ".", "SomeValue__c", " ASC">>)

(***************************************************************************)
(* C30  Fields without a tag.                                              *)
(***************************************************************************)
\* the field carries no soql tag
IsPlain(f) == f.tag = <<>>

\* the field is a subgroup the where compiler descends into
IsDescended(f) == getClauseKey(f.tag) = Subquery /\ ~(f.v.ptr /\ f.v.nil)

RECURSIVE WithoutPlain(_)
\* the struct without its fields that carry no tag, at every depth the
\* where compiler descends to
WithoutPlain(c) ==
    LET kept == SelectSeq(c.fields, LAMBDA f : ~IsPlain(f))
    IN  StructV([n \in 1..Len(kept) |->
                    IF IsDescended(kept[n])
                    THEN [kept[n] EXCEPT !.v = WithoutPlain(@)]
                    ELSE kept[n]])

\* a field without a tag is met by the where compiler
MeetsPlain(c) ==
    \E n \in 1..Len(c.fields) :
        \/ IsPlain(c.fields[n])
        \/ (/\ IsDescended(c.fields[n])
            /\ \E m \in 1..Len(c.fields[n].v.fields) : IsPlain(c.fields[n].v.fields[m]))

\* C30: the where compiler skips a field without a tag: the text and the
\* error are those of the criteria without such fields.
C30_WhereSkips ==
    (op = "MarshalWhereClause" /\ v \in PlainCriteria)
    => /\ out = MarshalWhereClause(WithoutPlain(v))
       /\ out.err = NoErr

\* what holds of the code: criteria in which a field without a tag is met
\* are refused, all others compile
C30_WhereRefuses ==
    (op = "MarshalWhereClause" /\ v \in PlainCriteria)
    => IF MeetsPlain(v) THEN out = Fail(ErrInvalidTag)
       ELSE out.err = NoErr /\ out = MarshalWhereClause(WithoutPlain(v))

\* the select compiler skips a field without a tag
C30_SelectSkips ==
    (op = "MarshalSelectClause" /\ v \in PlainShapes)
    => /\ out.err = NoErr
       /\ out = MarshalSelectClause(StructV(SelectSeq(v.fields, LAMBDA f : ~IsPlain(f))), rel)

\* the query compiler skips a field without a tag next to its clauses, and
\* refuses the query when the filter criteria hold one
C30_QuerySkips ==
    (op = "Marshal" /\ v \in PlainQueries)
    => IF MeetsPlain(v.fields[3].v) THEN out = Fail(ErrInvalidTag)
       ELSE out.err = NoErr /\ out = Marshal(StructV(Tail(v.fields)))

\* a populated condition next to a field without a tag is refused
C30_Refused ==
    /\ op = "MarshalWhereClause"
    /\ v = StructV(<<CondEquals(<<"a">>), NonSoqlMember>>)
    /\ out = Fail(ErrInvalidTag)

\* the same field is left out of a select clause
C30_LeftOut ==
    /\ op = "MarshalSelectClause"
    /\ v = StructV(<<ColID, NonSoqlMember, ColName>>)
    /\ out = Ok(<<"Id", ",", "Name__c">>)

====
